---------------------------- MODULE Spec2Model ----------------------------
(***************************************************************************)
(* A model of the claude-container credential brokers:                     *)
(*   command-agent/server.py     the command agent (exec of git/gh/curl)   *)
(*   credential-agent/server.py  the credential agent (get/inject/sign/..) *)
(*   plugins/base/*.py           the plugin server base                    *)
(*   tool-server/*.py            the tool server and its ToolCaller        *)
(* Python strings are TLA+ strings; a Python Optional[str] is a sequence   *)
(* of length 0 (None) or 1 (the value); a Python dict is a function whose  *)
(* DOMAIN is the set of keys present.                                      *)
(***************************************************************************)
EXTENDS Integers, Sequences, FiniteSets, TLC

VARIABLES
    agent,          \* which broker process this is: "command", "credential", "plugin"
    phase,          \* where the main thread is: "start" (before the store is
                    \* constructed), "loaded", "running" (the accept loop),
                    \* "destroyed", "stopping", "closed", "unlinked", "exited"
    environ,        \* os.environ: env var name -> value, for the variables present
    startEnviron,   \* os.environ as it was at process start (history)
    mlockOk,        \* whether libc.mlock succeeds in this process
    secrets,        \* CredentialStore._secrets: credential name -> SecureSecret object
    heap,           \* the SecureSecret objects: object -> [data, buf]
    credentials,    \* SecureCredentials._credentials (plugin server): name -> value
    resolved,       \* the names that resolved when destroy_all began (history)
    allowed_uids,   \* ALLOWED_UIDS / Policy.allowed_uids / PluginServer._allowed_uids
    blocked,        \* BLOCKED_BRANCHES
    allow_patterns, \* ALLOWED_BRANCH_PATTERNS
    policy,         \* Policy.tools and Policy.default_deny (credential agent)
    conn,           \* the connection last handled: peer uid, data received, request
    response,       \* the response sent on that connection (None: nothing was sent)
    events,         \* what the handling of that connection did, in order
    running,        \* self.running / PluginServer._running
    signalled,      \* whether SIGTERM or SIGINT was delivered (history)
    sock,           \* the listening socket: "none", "open", "closed"
    sockFile,       \* whether the socket path exists in the file system
    destroyCalls,   \* how many times the store's destroy was called (history)
    threads,        \* PluginServer._threads: "running" or "done" per worker thread
    call,           \* a call of a pure function under study: its name and arguments
    result,         \* what that call returned (None: not yet called)
    clients,        \* per client connection: where it stands, and what went over it
    tools,          \* ToolCaller.tools: the names of the registered tools
    setup_completed, \* ToolCaller._setup_completed
    fs,             \* the tool's directory under TOOLS_DIR and its wrappers on disk
    workers,        \* the tool server's connection threads: where each is in call()
    subprocesses    \* what the ToolCaller handed to subprocess.run, in order

storeVars == <<environ, startEnviron, mlockOk, secrets, heap, credentials, resolved>>
configVars == <<agent, allowed_uids, blocked, allow_patterns, policy>>
connVars == <<conn, response, events>>
runVars == <<running, signalled, sock, sockFile, destroyCalls, threads>>
fnVars == <<call, result>>
clientVars == <<clients>>
toolVars == <<tools, setup_completed, fs, workers, subprocesses>>
vars == <<phase, storeVars, configVars, connVars, runVars, fnVars, clientVars, toolVars>>

-----------------------------------------------------------------------------
(* Python values *)

None == << >>
Some(v) == <<v>>
IsNone(o) == o = << >>
Val(o) == o[1]

EmptyDict == [k \in {} |-> ""]
\* d.get(k, default)
Get(d, k, default) == IF k \in DOMAIN d THEN d[k] ELSE default
\* d with d[k] = v
Put(d, k, v) == [x \in DOMAIN d \cup {k} |-> IF x = k THEN v ELSE d[x]]
\* d after del d[k]
Del(d, k) == [x \in DOMAIN d \ {k} |-> d[x]]

\* s.startswith(p)
StartsWith(s, p) == Len(s) >= Len(p) /\ SubSeq(s, 1, Len(p)) = p
\* c in s, for a one-character c
HasChar(s, c) == \E i \in 1..Len(s) : SubSeq(s, i, i) = c
\* s.find(c) + 1, for a c that occurs in s
FirstIndex(s, c) ==
    CHOOSE i \in 1..Len(s) :
        /\ SubSeq(s, i, i) = c
        /\ \A j \in 1..(i - 1) : SubSeq(s, j, j) # c
\* s.split(c)[1], for a c that occurs in s: the text between the first
\* occurrence of c and the second one (or the end)
SplitSecond(s, c) ==
    LET rest == SubSeq(s, FirstIndex(s, c) + 1, Len(s))
    IN  IF HasChar(rest, c) THEN SubSeq(rest, 1, FirstIndex(rest, c) - 1) ELSE rest
\* needle in hay
Substring(needle, hay) ==
    \E i \in 1..(Len(hay) - Len(needle) + 1) :
        SubSeq(hay, i, i + Len(needle) - 1) = needle

Whitespace == {" ", "\n", "\t", "\r"}
RECURSIVE LStrip(_)
LStrip(s) == IF Len(s) > 0 /\ SubSeq(s, 1, 1) \in Whitespace THEN LStrip(Tail(s)) ELSE s
RECURSIVE RStrip(_)
RStrip(s) ==
    IF Len(s) > 0 /\ SubSeq(s, Len(s), Len(s)) \in Whitespace
    THEN RStrip(SubSeq(s, 1, Len(s) - 1)) ELSE s
\* s.strip()
Strip(s) == RStrip(LStrip(s))

UpperLetters == "ABCDEFGHIJKLMNOPQRSTUVWXYZ"
LowerLetters == "abcdefghijklmnopqrstuvwxyz"
MapChar(c, from, to) ==
    IF HasChar(from, c) THEN SubSeq(to, FirstIndex(from, c), FirstIndex(from, c)) ELSE c
RECURSIVE MapString(_, _, _)
MapString(s, from, to) ==
    IF Len(s) = 0 THEN s
    ELSE MapChar(SubSeq(s, 1, 1), from, to) \o MapString(Tail(s), from, to)
\* s.lower(), s.upper()
Lower(s) == MapString(s, UpperLetters, LowerLetters)
Upper(s) == MapString(s, LowerLetters, UpperLetters)

\* b'\x00' * n; the character "0" stands for the NUL byte, which no modelled
\* secret contains
RECURSIVE Zeros(_)
Zeros(n) == IF n = 0 THEN "" ELSE "0" \o Zeros(n - 1)

\* fnmatch.fnmatch(name, pat) on POSIX (normcase is the identity): "*" matches
\* any run of characters, "?" any one character, anything else itself.  The
\* modelled patterns hold no "[" class.
RECURSIVE fnmatch(_, _)
fnmatch(name, pat) ==
    IF Len(pat) = 0 THEN Len(name) = 0
    ELSE IF SubSeq(pat, 1, 1) = "*"
         THEN \/ fnmatch(name, Tail(pat))
              \/ Len(name) > 0 /\ fnmatch(Tail(name), pat)
         ELSE /\ Len(name) > 0
              /\ SubSeq(pat, 1, 1) = "?" \/ SubSeq(pat, 1, 1) = SubSeq(name, 1, 1)
              /\ fnmatch(Tail(name), Tail(pat))


-----------------------------------------------------------------------------
(* Secure memory and the credential stores *)

\* mlock_bytes(data): the locked copy of data, or None when locking is not
\* available, data is empty or mlock fails
mlock_bytes(data, ok) == IF ~ok \/ data = "" THEN None ELSE Some(data)

\* SecureSecret(name, _data): __post_init__ locks a copy
SecureSecret(data, ok) == [data |-> data, buf |-> mlock_bytes(data, ok)]

\* SecureSecret.get_value
get_value(secret) == IF ~IsNone(secret.buf) THEN Val(secret.buf) ELSE secret.data

\* a destroy that leaves one more zero byte than the data it found
SecureSecret_destroy_Growing(secret) ==
    [data |-> Zeros(Len(secret.data) + 1), buf |-> None]

\* SecureSecret.destroy: munlock_bytes zeroes and drops the locked copy, then
\* the data reference is replaced by zero bytes of the same length
SecureSecret_destroy(secret) == [data |-> Zeros(Len(secret.data)), buf |-> None]

\* One pass of the loop over credential_map: a variable that is present with
\* a non-empty value becomes a secret and is deleted from the environment.
\* A store under construction is [secrets, heap, environ].
LoadMapped(st, env_var, cred_name, ok) ==
    IF env_var \in DOMAIN st.environ /\ st.environ[env_var] # ""
    THEN [secrets |-> Put(st.secrets, cred_name, env_var),
          heap    |-> Put(st.heap, env_var, SecureSecret(st.environ[env_var], ok)),
          environ |-> Del(st.environ, env_var)]
    ELSE st

RECURSIVE LoadMap(_, _, _)
LoadMap(st, map, ok) ==
    IF Len(map) = 0 THEN st
    ELSE LoadMap(LoadMapped(st, Head(map)[1], Head(map)[2], ok), Tail(map), ok)

\* command agent: credential_map, in its order
CmdCredentialMap ==
    << <<"GITHUB_TOKEN", "github">>, <<"GH_TOKEN", "gh">>, <<"GITLAB_TOKEN", "gitlab">> >>

\* command agent: CredentialStore._load_from_environment
CmdLoadFromEnvironment(env, ok) ==
    LET st == LoadMap([secrets |-> EmptyDict, heap |-> EmptyDict, environ |-> env],
                      CmdCredentialMap, ok)
    IN  IF "github" \in DOMAIN st.secrets /\ "gh" \notin DOMAIN st.secrets
        THEN [st EXCEPT !.secrets = Put(st.secrets, "gh", st.secrets["github"])]
        ELSE st

\* credential agent: credential_map, in its order
CredCredentialMap ==
    << <<"GITHUB_TOKEN", "github">>, <<"GITLAB_TOKEN", "gitlab">>,
       <<"AWS_ACCESS_KEY_ID", "aws_access_key">>,
       <<"AWS_SECRET_ACCESS_KEY", "aws_secret_key">>,
       <<"NPM_TOKEN", "npm">>, <<"PYPI_TOKEN", "pypi">>, <<"DOCKER_TOKEN", "docker">> >>

AgentSecretPrefix == "AGENT_SECRET_"

\* credential agent: the loop over AGENT_SECRET_* keys; every such key is
\* loaded (an empty value too) and deleted
RECURSIVE LoadAgentSecrets(_, _, _)
LoadAgentSecrets(st, keys, ok) ==
    IF keys = {} THEN st
    ELSE LET key == CHOOSE k \in keys : TRUE
             cred_name == Lower(SubSeq(key, 14, Len(key)))
             next == [secrets |-> Put(st.secrets, cred_name, key),
                      heap    |-> Put(st.heap, key, SecureSecret(st.environ[key], ok)),
                      environ |-> Del(st.environ, key)]
         IN  LoadAgentSecrets(next, keys \ {key}, ok)

\* credential agent: CredentialStore._load_from_environment
CredLoadFromEnvironment(env, ok) ==
    LET st == LoadMap([secrets |-> EmptyDict, heap |-> EmptyDict, environ |-> env],
                      CredCredentialMap, ok)
    IN  LoadAgentSecrets(st, {k \in DOMAIN st.environ : StartsWith(k, AgentSecretPrefix)}, ok)

\* CredentialStore.get on a store with these secrets and objects
StoreGet(sec, hp, name) ==
    IF name \in DOMAIN sec THEN Some(get_value(hp[sec[name]])) ELSE None

\* CredentialStore.list_available
ListAvailable(sec) == DOMAIN sec

\* CredentialStore.destroy_all: the loop destroys the object behind each name
\* (an object two names share is destroyed twice); this is the heap after it
RECURSIVE DestroyEach(_, _, _)
DestroyEach(hp, sec, names) ==
    IF names = {} THEN hp
    ELSE LET n == CHOOSE x \in names : TRUE
         IN  DestroyEach(Put(hp, sec[n], SecureSecret_destroy(hp[sec[n]])), sec, names \ {n})

\* destroy_all without self._secrets.clear()
SecretsKept(sec) == sec

\* CredentialStore.destroy_all: the names left after self._secrets.clear()
SecretsAfterClear(sec) == EmptyDict

\* plugin main(): the variables the git plugin loads
PluginCredentialVars == <<"GITHUB_TOKEN", "GH_TOKEN", "GIT_TOKEN">>

\* SecureCredentials.load_from_env(env_vars, clear_env); a store under
\* construction is [credentials, environ]
RECURSIVE LoadFromEnv(_, _, _)
LoadFromEnv(st, env_vars, clear_env) ==
    IF Len(env_vars) = 0 THEN st
    ELSE LET var == Head(env_vars)
             next == IF var \in DOMAIN st.environ /\ st.environ[var] # ""
                     THEN [credentials |-> Put(st.credentials, var, st.environ[var]),
                           environ |-> IF clear_env THEN Del(st.environ, var)
                                       ELSE st.environ]
                     ELSE st
         IN  LoadFromEnv(next, Tail(env_vars), clear_env)

\* SecureCredentials.get
CredentialsGet(creds, name) == IF name \in DOMAIN creds THEN Some(creds[name]) ELSE None

-----------------------------------------------------------------------------
(* The process environments the model starts from *)

\* at most this many credential variables are set in a modelled environment
MaxEnvVars == 2

Agents == {"command", "credential", "plugin"}

\* the credential-bearing variables the model sets or leaves unset
EnvUniverse(a) ==
    CASE a = "command"    -> {"GITHUB_TOKEN", "GH_TOKEN", "GITLAB_TOKEN"}
      [] a = "credential" -> {"GITHUB_TOKEN", "AWS_ACCESS_KEY_ID", "AWS_SECRET_ACCESS_KEY",
                              "NPM_TOKEN", "GITLAB_TOKEN", "AGENT_SECRET_X",
                              "AGENT_SECRET_GITHUB"}
      [] a = "plugin"     -> {"GITHUB_TOKEN", "GH_TOKEN", "GIT_TOKEN"}

\* the value a set, non-empty variable holds: one distinct secret per variable
SecretValue(var) == "tok-" \o var

\* a variable that is no credential, present in every environment
BaseEnv == [k \in {"PATH"} |-> "/usr/bin"]

\* environments with the variables of S set, those of E to the empty string
EnvOf(S, E) ==
    [k \in S \cup DOMAIN BaseEnv |->
        IF k \in DOMAIN BaseEnv THEN BaseEnv[k]
        ELSE IF k \in E THEN "" ELSE SecretValue(k)]

\* every environment of agent a, with or without empty-valued variables
Environments(a, withEmpty) ==
    { EnvOf(S, E) : <<S, E>> \in
        { p \in (SUBSET EnvUniverse(a)) \X (SUBSET EnvUniverse(a)) :
            /\ Cardinality(p[1]) <= MaxEnvVars
            /\ p[2] \subseteq p[1]
            /\ withEmpty \/ p[2] = {} } }

\* the non-empty secret values a store holds
LoadedValues(sec, hp) ==
    { Val(StoreGet(sec, hp, n)) : n \in DOMAIN sec } \ {""}

-----------------------------------------------------------------------------
(* Configuration *)

DefaultBlocked == {"main", "master"}
DefaultPolicy == [tools |-> EmptyDict, default_deny |-> TRUE]
NoConn == [kind |-> "none"]
NoCall == [fn |-> "none"]

\* the store of agent a constructed from environment env
Constructed(a, env, ok) ==
    CASE a = "command" ->
            LET st == CmdLoadFromEnvironment(env, ok)
            IN  [secrets |-> st.secrets, heap |-> st.heap, environ |-> st.environ,
                 credentials |-> EmptyDict]
      [] a = "credential" ->
            LET st == CredLoadFromEnvironment(env, ok)
            IN  [secrets |-> st.secrets, heap |-> st.heap, environ |-> st.environ,
                 credentials |-> EmptyDict]
      [] a = "plugin" ->
            LET st == LoadFromEnv([credentials |-> EmptyDict, environ |-> env],
                                  PluginCredentialVars, TRUE)
            IN  [secrets |-> EmptyDict, heap |-> EmptyDict, environ |-> st.environ,
                 credentials |-> st.credentials]

-----------------------------------------------------------------------------
(* Command agent: branch protection and the git push argument parser *)

\* the for loop of check_branch_allowed over ALLOWED_BRANCH_PATTERNS
MatchesAnyPattern(branch, patterns) ==
    \E i \in 1..Len(patterns) : fnmatch(branch, patterns[i])

\* check_branch_allowed(branch)
\* check_branch_allowed asking for a match of every allow pattern
check_branch_AllPatterns(branch) ==
    IF branch \in blocked
    THEN [allowed |-> FALSE, reason |-> "Branch '" \o branch \o "' is protected"]
    ELSE IF Len(allow_patterns) > 0
         THEN IF \A i \in DOMAIN allow_patterns : fnmatch(branch, allow_patterns[i])
              THEN [allowed |-> TRUE, reason |-> "Allowed by pattern"]
              ELSE [allowed |-> FALSE,
                    reason |-> "Branch '" \o branch \o "' does not match allowed patterns"]
         ELSE [allowed |-> TRUE, reason |-> "Allowed"]

\* check_branch_allowed with the allow patterns consulted before the blocklist
check_branch_PatternsFirst(branch) ==
    IF Len(allow_patterns) > 0 /\ MatchesAnyPattern(branch, allow_patterns)
    THEN [allowed |-> TRUE, reason |-> "Allowed by pattern"]
    ELSE IF branch \in blocked
    THEN [allowed |-> FALSE, reason |-> "Branch '" \o branch \o "' is protected"]
    ELSE IF Len(allow_patterns) > 0
    THEN [allowed |-> FALSE,
          reason |-> "Branch '" \o branch \o "' does not match allowed patterns"]
    ELSE [allowed |-> TRUE, reason |-> "Allowed"]

check_branch_allowed(branch) ==
    IF branch \in blocked
    THEN [allowed |-> FALSE, reason |-> "Branch '" \o branch \o "' is protected"]
    ELSE IF Len(allow_patterns) > 0
         THEN IF MatchesAnyPattern(branch, allow_patterns)
              THEN [allowed |-> TRUE, reason |-> "Allowed by pattern"]
              ELSE [allowed |-> FALSE,
                    reason |-> "Branch '" \o branch \o "' does not match allowed patterns"]
         ELSE [allowed |-> TRUE, reason |-> "Allowed"]

ZeroArgFlags ==
    {"-u", "--set-upstream", "-f", "--force", "--force-with-lease", "-n", "--dry-run",
     "-v", "--verbose", "-q", "--quiet", "--all", "--tags", "--delete", "--prune"}
OneArgFlags == {"-o", "--push-option", "--repo", "--receive-pack", "--exec"}

\* the loop of extract_push_branch without skip_next: the token after a
\* one-argument flag is kept
RECURSIVE NonOptionArgs_KeepValues(_, _)
NonOptionArgs_KeepValues(args, skip_next) ==
    IF Len(args) = 0 THEN << >>
    ELSE LET arg == Head(args)
         IN  IF StartsWith(arg, "-") THEN NonOptionArgs_KeepValues(Tail(args), FALSE)
             ELSE <<arg>> \o NonOptionArgs_KeepValues(Tail(args), FALSE)

\* the loop of extract_push_branch: non_option_args
RECURSIVE NonOptionArgs(_, _)
NonOptionArgs(args, skip_next) ==
    IF Len(args) = 0 THEN << >>
    ELSE LET arg == Head(args)
         IN  IF skip_next THEN NonOptionArgs(Tail(args), FALSE)
             ELSE IF arg \in ZeroArgFlags THEN NonOptionArgs(Tail(args), FALSE)
             ELSE IF StartsWith(arg, "-")
                  THEN NonOptionArgs(Tail(args), arg \in OneArgFlags)
                  ELSE <<arg>> \o NonOptionArgs(Tail(args), FALSE)

RemoteNames == {"origin", "upstream"}

\* extract_push_branch answering None for a refspec with an empty source
extract_push_branch_EmptySource(args) ==
    LET P == NonOptionArgs(args, FALSE)
    IN  IF Len(P) >= 2
        THEN LET refspec == P[2]
             IN  IF HasChar(refspec, ":")
                 THEN LET dst == SplitSecond(refspec, ":")
                      IN  IF dst # "" /\ ~StartsWith(refspec, ":") THEN Some(dst) ELSE None
                 ELSE Some(refspec)
        ELSE IF Len(P) = 1
             THEN IF P[1] \in RemoteNames THEN None ELSE Some(P[1])
             ELSE None

\* extract_push_branch knowing 'origin' as the only remote name
extract_push_branch_OriginOnly(args) ==
    LET P == NonOptionArgs(args, FALSE)
    IN  IF Len(P) >= 2
        THEN LET refspec == P[2]
             IN  IF HasChar(refspec, ":")
                 THEN LET dst == SplitSecond(refspec, ":")
                      IN  IF dst # "" THEN Some(dst) ELSE None
                 ELSE Some(refspec)
        ELSE IF Len(P) = 1
             THEN IF P[1] = "origin" THEN None ELSE Some(P[1])
             ELSE None

\* extract_push_branch(args): Some(branch), or None
extract_push_branch(args) ==
    LET P == NonOptionArgs(args, FALSE)
    IN  IF Len(P) >= 2
        THEN LET refspec == P[2]
             IN  IF HasChar(refspec, ":")
                 THEN LET dst == SplitSecond(refspec, ":")
                      IN  IF dst # "" THEN Some(dst) ELSE None
                 ELSE Some(refspec)
        ELSE IF Len(P) = 1
             THEN IF P[1] \in RemoteNames THEN None ELSE Some(P[1])
             ELSE None

\* A finished or failed subprocess.run: exc is "" when it returned
Completed(rc, out, err) == [exc |-> "", rc |-> rc, stdout |-> out, stderr |-> err]
Raised(exc) == [exc |-> exc, rc |-> 0, stdout |-> "", stderr |-> ""]
NotRun == [exc |-> "not run", rc |-> 0, stdout |-> "", stderr |-> ""]

\* get_current_branch(cwd), given how `git branch --show-current` ran
get_current_branch(run) ==
    IF run.exc = "" /\ run.rc = 0 THEN Some(Strip(run.stdout)) ELSE None

-----------------------------------------------------------------------------
(* Command agent: validation and execution *)

ALLOWED_COMMANDS == {"git", "gh", "curl"}
MAX_OUTPUT_SIZE == 1048576

\* args and args[0] == 'push'
IsPush(cmd, args) == cmd = "git" /\ Len(args) > 0 /\ args[1] = "push"

\* validate_command: whether the current branch is queried
QueriesCurrentBranch(cmd, args) ==
    /\ cmd \in ALLOWED_COMMANDS
    /\ IsPush(cmd, args)
    /\ IsNone(extract_push_branch(Tail(args)))

\* validate_command: the branch the push check looks at (None: undetermined)
PushBranch(args, cb) ==
    LET parsed == extract_push_branch(Tail(args))
    IN  IF IsNone(parsed) THEN get_current_branch(cb) ELSE parsed

\* validate_command checking only a branch named in the argv, never the
\* current branch
validate_command_ParsedOnly(cmd, args, cb) ==
    IF cmd \notin ALLOWED_COMMANDS
    THEN [ok |-> FALSE, reason |-> "Command '" \o cmd \o "' not allowed", events |-> << >>]
    ELSE LET branch == extract_push_branch(Tail(args))
             checked == IsPush(cmd, args) /\ ~IsNone(branch) /\ Val(branch) # ""
             ev == (IF QueriesCurrentBranch(cmd, args)
                    THEN <<"spawn git branch --show-current">> ELSE << >>)
                   \o (IF checked THEN <<"check_branch">> ELSE << >>)
         IN  IF checked /\ ~check_branch_allowed(Val(branch)).allowed
             THEN [ok |-> FALSE, reason |-> check_branch_allowed(Val(branch)).reason,
                   events |-> ev]
             ELSE IF /\ cmd = "git" /\ Len(args) > 0
                     /\ args[1] \in {"config", "remote"}
                     /\ \E i \in 1..Len(args) : args[i] = "--global"
             THEN [ok |-> FALSE, reason |-> "Global git config changes not allowed",
                   events |-> ev]
             ELSE IF cmd = "gh" /\ Len(args) > 0 /\ args[1] \in {"auth", "config"}
             THEN [ok |-> FALSE, reason |-> "gh " \o args[1] \o " not allowed",
                   events |-> ev]
             ELSE [ok |-> TRUE, reason |-> "OK", events |-> ev]

\* validate_command without the test of the command name
validate_command_AnyCommand(cmd, args, cb) ==
    LET branch == PushBranch(args, cb)
        checked == IsPush(cmd, args) /\ ~IsNone(branch) /\ Val(branch) # ""
        ev == (IF IsPush(cmd, args) /\ IsNone(extract_push_branch(Tail(args)))
               THEN <<"spawn git branch --show-current">> ELSE << >>)
              \o (IF checked THEN <<"check_branch">> ELSE << >>)
    IN  IF checked /\ ~check_branch_allowed(Val(branch)).allowed
        THEN [ok |-> FALSE, reason |-> check_branch_allowed(Val(branch)).reason,
              events |-> ev]
        ELSE IF /\ cmd = "git" /\ Len(args) > 0
                /\ args[1] \in {"config", "remote"}
                /\ \E i \in 1..Len(args) : args[i] = "--global"
        THEN [ok |-> FALSE, reason |-> "Global git config changes not allowed",
              events |-> ev]
        ELSE IF cmd = "gh" /\ Len(args) > 0 /\ args[1] \in {"auth", "config"}
        THEN [ok |-> FALSE, reason |-> "gh " \o args[1] \o " not allowed",
              events |-> ev]
        ELSE [ok |-> TRUE, reason |-> "OK", events |-> ev]

\* validate_command refusing a push whose target branch it cannot determine
validate_command_DenyUndetermined(cmd, args, cb) ==
    IF cmd \notin ALLOWED_COMMANDS
    THEN [ok |-> FALSE, reason |-> "Command '" \o cmd \o "' not allowed", events |-> << >>]
    ELSE LET branch == PushBranch(args, cb)
             checked == IsPush(cmd, args) /\ ~IsNone(branch) /\ Val(branch) # ""
             ev == (IF QueriesCurrentBranch(cmd, args)
                    THEN <<"spawn git branch --show-current">> ELSE << >>)
                   \o (IF checked THEN <<"check_branch">> ELSE << >>)
         IN  IF IsPush(cmd, args) /\ ~checked
             THEN [ok |-> FALSE, reason |-> "Cannot determine the target branch",
                   events |-> ev]
             ELSE IF checked /\ ~check_branch_allowed(Val(branch)).allowed
             THEN [ok |-> FALSE, reason |-> check_branch_allowed(Val(branch)).reason,
                   events |-> ev]
             ELSE IF /\ cmd = "git" /\ Len(args) > 0
                     /\ args[1] \in {"config", "remote"}
                     /\ \E i \in 1..Len(args) : args[i] = "--global"
             THEN [ok |-> FALSE, reason |-> "Global git config changes not allowed",
                   events |-> ev]
             ELSE IF cmd = "gh" /\ Len(args) > 0 /\ args[1] \in {"auth", "config"}
             THEN [ok |-> FALSE, reason |-> "gh " \o args[1] \o " not allowed",
                   events |-> ev]
             ELSE [ok |-> TRUE, reason |-> "OK", events |-> ev]

\* validate_command(cmd, args, cwd), given how the current-branch query would
\* run: the verdict and, in order, what it did
validate_command(cmd, args, cb) ==
    IF cmd \notin ALLOWED_COMMANDS
    THEN [ok |-> FALSE, reason |-> "Command '" \o cmd \o "' not allowed", events |-> << >>]
    ELSE LET branch == PushBranch(args, cb)
             checked == IsPush(cmd, args) /\ ~IsNone(branch) /\ Val(branch) # ""
             ev == (IF QueriesCurrentBranch(cmd, args)
                    THEN <<"spawn git branch --show-current">> ELSE << >>)
                   \o (IF checked THEN <<"check_branch">> ELSE << >>)
         IN  IF checked /\ ~check_branch_allowed(Val(branch)).allowed
             THEN [ok |-> FALSE, reason |-> check_branch_allowed(Val(branch)).reason,
                   events |-> ev]
             ELSE IF /\ cmd = "git" /\ Len(args) > 0
                     /\ args[1] \in {"config", "remote"}
                     /\ \E i \in 1..Len(args) : args[i] = "--global"
             THEN [ok |-> FALSE, reason |-> "Global git config changes not allowed",
                   events |-> ev]
             ELSE IF cmd = "gh" /\ Len(args) > 0 /\ args[1] \in {"auth", "config"}
             THEN [ok |-> FALSE, reason |-> "gh " \o args[1] \o " not allowed",
                   events |-> ev]
             ELSE [ok |-> TRUE, reason |-> "OK", events |-> ev]

\* execute_command: the store reads it makes, in order
ExecStoreReads(cmd, sec, hp) ==
    CASE cmd = "git" -> <<"store.get github">>
      [] cmd = "gh"  -> IF ~IsNone(StoreGet(sec, hp, "gh")) /\ Val(StoreGet(sec, hp, "gh")) # ""
                        THEN <<"store.get gh">>
                        ELSE <<"store.get gh", "store.get github">>
      [] OTHER       -> << >>

\* execute_command: the variables it adds to the copy of os.environ
InjectedEnv(cmd, sec, hp) ==
    LET github == StoreGet(sec, hp, "github")
        gh == StoreGet(sec, hp, "gh")
        token == IF ~IsNone(gh) /\ Val(gh) # "" THEN gh ELSE github
    IN  CASE cmd = "git" /\ ~IsNone(github) /\ Val(github) # "" ->
                [k \in {"GIT_ASKPASS", "GIT_USERNAME", "GIT_PASSWORD", "GIT_TERMINAL_PROMPT"} |->
                    CASE k = "GIT_ASKPASS" -> "/bin/echo"
                      [] k = "GIT_USERNAME" -> "x-access-token"
                      [] k = "GIT_PASSWORD" -> Val(github)
                      [] k = "GIT_TERMINAL_PROMPT" -> "0"]
          [] cmd = "gh" /\ ~IsNone(token) /\ Val(token) # "" ->
                [k \in {"GH_TOKEN"} |-> Val(token)]
          [] OTHER -> EmptyDict

\* the truncation of one captured stream
Truncate(text) ==
    IF Len(text) > MAX_OUTPUT_SIZE
    THEN SubSeq(text, 1, MAX_OUTPUT_SIZE) \o "\n... (truncated)"
    ELSE text

\* execute_command with one except clause for every exception
execute_command_GenericFailure(cmd, args, run) ==
    CASE run.exc = "" ->
            [exit_code |-> run.rc, stdout |-> Truncate(run.stdout),
             stderr |-> Truncate(run.stderr)]
      [] OTHER ->
            [exit_code |-> 1, stdout |-> "", stderr |-> run.exc]

\* execute_command(cmd, args, cwd, store), given how the subprocess ran: the
\* result dict
execute_command(cmd, args, run) ==
    CASE run.exc = "" ->
            [exit_code |-> run.rc, stdout |-> Truncate(run.stdout),
             stderr |-> Truncate(run.stderr)]
      [] run.exc = "TimeoutExpired" ->
            [exit_code |-> 124, stdout |-> "", stderr |-> "Command timed out"]
      [] run.exc = "FileNotFoundError" ->
            [exit_code |-> 127, stdout |-> "", stderr |-> "Command not found: " \o cmd]
      [] OTHER ->
            [exit_code |-> 1, stdout |-> "", stderr |-> run.exc]

\* CommandAgent.handle_request(conn, request), given the peer uid the kernel
\* reports and how the subprocesses would run: the response and what was done
CmdHandleRequest(uid, request, sec, hp, cb, run) ==
    IF uid \notin allowed_uids
    THEN [response |-> [error |-> "Access denied for UID " \o ToString(uid), exit_code |-> 1],
          events |-> <<"check uid">>]
    ELSE LET action == Get(request, "action", "exec")
         IN  IF action = "health"
             THEN [response |-> [status |-> "ok", credentials |-> ListAvailable(sec),
                                 blocked_branches |-> blocked,
                                 allowed_patterns |-> allow_patterns],
                   events |-> <<"check uid">>]
             ELSE IF action = "exec"
             THEN LET cmd == Get(request, "cmd", "")
                      args == Get(request, "args", << >>)
                      v == validate_command(cmd, args, cb)
                  IN  IF cmd = ""
                      THEN [response |-> [error |-> "No command specified", exit_code |-> 1],
                            events |-> <<"check uid">>]
                      ELSE IF ~v.ok
                      THEN [response |-> [error |-> v.reason, exit_code |-> 1],
                            events |-> <<"check uid">> \o v.events]
                      ELSE [response |-> execute_command(cmd, args, run),
                            events |-> <<"check uid">> \o v.events
                                      \o ExecStoreReads(cmd, sec, hp)
                                      \o <<"spawn " \o cmd>>]
             ELSE [response |-> [error |-> "Unknown action: " \o action, exit_code |-> 1],
                   events |-> <<"check uid">>]

-----------------------------------------------------------------------------
(* Credential agent: the policy and the request handlers *)

\* Policy.check_access(tool, operation, uid, pid)
\* check_access consulting the operations map before the enabled flag
check_access_OperationsFirst(tool, operation, uid) ==
    IF uid \notin allowed_uids
    THEN [allowed |-> FALSE, reason |-> "UID " \o ToString(uid) \o " not in allowed list"]
    ELSE LET tool_policy == Get(policy.tools, tool, EmptyDict)
             operations == Get(tool_policy, "operations", EmptyDict)
         IN  IF operation \in DOMAIN operations /\ operations[operation]
             THEN [allowed |-> TRUE, reason |-> "Access granted"]
             ELSE IF ~Get(tool_policy, "enabled", TRUE)
             THEN [allowed |-> FALSE, reason |-> "Tool '" \o tool \o "' is disabled"]
             ELSE IF DOMAIN operations # {} /\ operation \notin DOMAIN operations
                     /\ policy.default_deny
             THEN [allowed |-> FALSE, reason |-> "Operation not allowed"]
             ELSE IF DOMAIN operations # {} /\ operation \in DOMAIN operations
             THEN [allowed |-> FALSE, reason |-> "Operation explicitly denied"]
             ELSE [allowed |-> TRUE, reason |-> "Access granted"]

\* check_access without the uid test
check_access_AnyUid(tool, operation, uid) ==
    LET tool_policy == Get(policy.tools, tool, EmptyDict)
        operations == Get(tool_policy, "operations", EmptyDict)
    IN  IF ~Get(tool_policy, "enabled", TRUE)
        THEN [allowed |-> FALSE, reason |-> "Tool '" \o tool \o "' is disabled"]
        ELSE IF DOMAIN operations # {} /\ operation \notin DOMAIN operations
                /\ policy.default_deny
        THEN [allowed |-> FALSE, reason |-> "Operation not allowed"]
        ELSE IF DOMAIN operations # {} /\ operation \in DOMAIN operations
                /\ ~operations[operation]
        THEN [allowed |-> FALSE, reason |-> "Operation explicitly denied"]
        ELSE [allowed |-> TRUE, reason |-> "Access granted"]

check_access(tool, operation, uid) ==
    IF uid \notin allowed_uids
    THEN [allowed |-> FALSE, reason |-> "UID " \o ToString(uid) \o " not in allowed list"]
    ELSE LET tool_policy == Get(policy.tools, tool, EmptyDict)
             operations == Get(tool_policy, "operations", EmptyDict)
         IN  IF ~Get(tool_policy, "enabled", TRUE)
             THEN [allowed |-> FALSE, reason |-> "Tool '" \o tool \o "' is disabled"]
             ELSE IF DOMAIN operations # {} /\ operation \notin DOMAIN operations
                     /\ policy.default_deny
             THEN [allowed |-> FALSE,
                   reason |-> "Operation '" \o operation \o "' not allowed for tool '"
                              \o tool \o "'"]
             ELSE IF DOMAIN operations # {} /\ operation \in DOMAIN operations
                     /\ ~operations[operation]
             THEN [allowed |-> FALSE,
                   reason |-> "Operation '" \o operation \o "' explicitly denied for tool '"
                              \o tool \o "'"]
             ELSE [allowed |-> TRUE, reason |-> "Access granted"]

\* the refusal of a handler whose check_access denied
AccessDenied(reason) == [error |-> reason, code |-> "ACCESS_DENIED"]
NotFound(msg) == [error |-> msg, code |-> "NOT_FOUND"]

\* `if not token`: a missing or empty credential
Falsy(o) == IsNone(o) \/ Val(o) = ""

\* RequestHandler._handle_get(peer, tool, operation)
HandleGet(uid, tool, operation, sec, hp) ==
    LET a == check_access(tool, operation, uid)
        value == StoreGet(sec, hp, tool)
    IN  IF ~a.allowed
        THEN [response |-> AccessDenied(a.reason), events |-> <<"check_access">>]
        ELSE [response |-> IF IsNone(value)
                           THEN NotFound("No credential found for '" \o tool \o "'")
                           ELSE [value |-> Val(value), tool |-> tool],
              events |-> <<"check_access", "store.get " \o tool>>]

\* RequestHandler._handle_inject(peer, tool, request)
HandleInject(uid, tool, request, sec, hp) ==
    LET operation == Get(request, "operation", "inject")
        a == check_access(tool, operation, uid)
        github == StoreGet(sec, hp, "github")
        access_key == StoreGet(sec, hp, "aws_access_key")
        secret_key == StoreGet(sec, hp, "aws_secret_key")
        npm == StoreGet(sec, hp, "npm")
        value == StoreGet(sec, hp, tool)
    IN  IF ~a.allowed
        THEN [response |-> AccessDenied(a.reason), events |-> <<"check_access">>]
        ELSE CASE tool = "github" ->
                    [response |->
                        IF Falsy(github) THEN NotFound("GitHub token not configured")
                        ELSE [env |-> [k \in {"GIT_ASKPASS", "GIT_USERNAME", "GIT_PASSWORD"} |->
                                        CASE k = "GIT_ASKPASS" -> "echo"
                                          [] k = "GIT_USERNAME" -> "x-access-token"
                                          [] k = "GIT_PASSWORD" -> Val(github)],
                              tool |-> tool],
                     events |-> <<"check_access", "store.get github">>]
               [] tool = "aws" ->
                    [response |->
                        IF Falsy(access_key) \/ Falsy(secret_key)
                        THEN NotFound("AWS credentials not configured")
                        ELSE [env |-> [k \in {"AWS_ACCESS_KEY_ID", "AWS_SECRET_ACCESS_KEY"} |->
                                        IF k = "AWS_ACCESS_KEY_ID" THEN Val(access_key)
                                        ELSE Val(secret_key)],
                              tool |-> tool],
                     events |-> <<"check_access", "store.get aws_access_key",
                                  "store.get aws_secret_key">>]
               [] tool = "npm" ->
                    [response |->
                        IF Falsy(npm) THEN NotFound("NPM token not configured")
                        ELSE [env |-> [k \in {"NPM_TOKEN"} |-> Val(npm)], tool |-> tool],
                     events |-> <<"check_access", "store.get npm">>]
               [] OTHER ->
                    [response |->
                        IF IsNone(value)
                        THEN NotFound("No credential found for '" \o tool \o "'")
                        ELSE [env |-> [k \in {Upper(tool) \o "_TOKEN"} |-> Val(value)],
                              tool |-> tool],
                     events |-> <<"check_access", "store.get " \o tool>>]

\* hmac.new(key, data, sha256).hexdigest(): a term over the key and the data;
\* the digest is taken to reveal neither
HmacSha256(key, data) == <<"hmac-sha256", key, data>>

\* _handle_sign reading the key before it asks check_access
HandleSign_ReadFirst(uid, tool, request, sec, hp) ==
    LET a == check_access(tool, "sign", uid)
        data == Get(request, "data", "")
        key == StoreGet(sec, hp, tool)
    IN  IF ~a.allowed
        THEN [response |-> AccessDenied(a.reason), events |-> <<"store.get " \o tool, "check_access">>]
        ELSE IF data = ""
        THEN [response |-> [error |-> "No data to sign", code |-> "INVALID_REQUEST"],
              events |-> <<"store.get " \o tool, "check_access">>]
        ELSE [response |-> IF Falsy(key)
                           THEN NotFound("No signing key for '" \o tool \o "'")
                           ELSE [signature |-> HmacSha256(Val(key), data),
                                 algorithm |-> "hmac-sha256"],
              events |-> <<"store.get " \o tool, "check_access">>]

\* RequestHandler._handle_sign(peer, tool, request)
HandleSign(uid, tool, request, sec, hp) ==
    LET a == check_access(tool, "sign", uid)
        data == Get(request, "data", "")
        key == StoreGet(sec, hp, tool)
    IN  IF ~a.allowed
        THEN [response |-> AccessDenied(a.reason), events |-> <<"check_access">>]
        ELSE IF data = ""
        THEN [response |-> [error |-> "No data to sign", code |-> "INVALID_REQUEST"],
              events |-> <<"check_access">>]
        ELSE [response |-> IF Falsy(key)
                           THEN NotFound("No signing key for '" \o tool \o "'")
                           ELSE [signature |-> HmacSha256(Val(key), data),
                                 algorithm |-> "hmac-sha256"],
              events |-> <<"check_access", "store.get " \o tool>>]

\* _handle_list answering with the stored values in place of the names
HandleList_Values(uid, sec) ==
    IF uid \notin allowed_uids
    THEN [response |-> [error |-> "Access denied", code |-> "ACCESS_DENIED"],
          events |-> <<"check uid">>]
    ELSE [response |-> [credentials |-> LoadedValues(sec, heap)], events |-> <<"check uid">>]

\* RequestHandler._handle_list(peer)
HandleList(uid, sec) ==
    IF uid \notin allowed_uids
    THEN [response |-> [error |-> "Access denied", code |-> "ACCESS_DENIED"],
          events |-> <<"check uid">>]
    ELSE [response |-> [credentials |-> ListAvailable(sec)], events |-> <<"check uid">>]

\* a check that decides by the caller's uid alone
HandleCheck_UidOnly(uid, tool, operation) ==
    [response |-> [allowed |-> uid \in allowed_uids, reason |-> "OK", tool |-> tool,
                   operation |-> operation],
     events |-> <<"check uid">>]

\* RequestHandler._handle_check(peer, tool, operation)
HandleCheck(uid, tool, operation) ==
    LET a == check_access(tool, operation, uid)
    IN  [response |-> [allowed |-> a.allowed, reason |-> a.reason, tool |-> tool,
                       operation |-> operation],
         events |-> <<"check_access">>]

\* handle taking the caller's uid from the request body when it names one
CredHandle_PayloadUid(uid, request, sec, hp) ==
    LET action == Get(request, "action", "")
        tool == Get(request, "tool", "")
        operation == Get(request, "operation", "get")
        peer == Get(request, "uid", uid)
    IN  CASE action = "get" -> HandleGet(peer, tool, operation, sec, hp)
          [] action = "inject" -> HandleInject(peer, tool, request, sec, hp)
          [] action = "sign" -> HandleSign(peer, tool, request, sec, hp)
          [] action = "list" -> HandleList(peer, sec)
          [] action = "check" -> HandleCheck(peer, tool, operation)
          [] action = "health" ->
                [response |-> [status |-> "ok", secrets_loaded |-> Cardinality(ListAvailable(sec))],
                 events |-> << >>]
          [] OTHER ->
                [response |-> [error |-> "Unknown action: " \o action], events |-> << >>]

\* RequestHandler.handle(conn, request), given the peer uid the kernel reports
CredHandle(uid, request, sec, hp) ==
    LET action == Get(request, "action", "")
        tool == Get(request, "tool", "")
        operation == Get(request, "operation", "get")
    IN  CASE action = "get" -> HandleGet(uid, tool, operation, sec, hp)
          [] action = "inject" -> HandleInject(uid, tool, request, sec, hp)
          [] action = "sign" -> HandleSign(uid, tool, request, sec, hp)
          [] action = "list" -> HandleList(uid, sec)
          [] action = "check" -> HandleCheck(uid, tool, operation)
          [] action = "health" ->
                [response |-> [status |-> "ok", secrets_loaded |-> Cardinality(ListAvailable(sec))],
                 events |-> << >>]
          [] OTHER ->
                [response |-> [error |-> "Unknown action: " \o action], events |-> << >>]

-----------------------------------------------------------------------------
(* Plugin server base: peer verification and request processing *)

MAX_MESSAGE_SIZE == 65536

\* verify_peer_uid(sock, allowed_uids), given the peer uid the kernel reports
\* and whether getsockopt succeeds: (allowed, peer_uid)
verify_peer_uid(uid, sockopt_ok, allowed) ==
    IF sockopt_ok
    THEN [allowed |-> Cardinality(allowed) = 0 \/ uid \in allowed, uid |-> uid]
    ELSE [allowed |-> FALSE, uid |-> -1]

\* PluginServer._handle_connection: whether the peer is let through to
\* read_message
PluginPeerAdmitted(uid, sockopt_ok) ==
    IF allowed_uids # {} THEN verify_peer_uid(uid, sockopt_ok, allowed_uids).allowed
    ELSE TRUE

\* read_message refusing a length prefix equal to the cap
read_message_CapExclusive(msg) ==
    IF msg.kind = "closed" THEN None
    ELSE IF msg.length >= MAX_MESSAGE_SIZE THEN None
    ELSE IF msg.kind = "bad json" THEN None
    ELSE Some(msg.request)

\* read_message(sock): what it does, in order, up to its return or its raise
ReadMessageSteps(msg) ==
    <<"recv length">>
    \o (IF msg.kind = "closed" THEN <<"raise ProtocolError: Connection closed">>
        ELSE IF msg.length > MAX_MESSAGE_SIZE
        THEN <<"raise ProtocolError: Message size exceeds max">>
        ELSE <<"recv payload", "decode_message">>
             \o (IF msg.kind = "bad json" THEN <<"raise ProtocolError: Invalid JSON">>
                 ELSE << >>))

\* read_message(sock): the decoded request, or None for a ProtocolError
\* (connection closed, length prefix over the cap, invalid JSON)
read_message(msg) ==
    IF msg.kind = "closed" THEN None
    ELSE IF msg.length > MAX_MESSAGE_SIZE THEN None
    ELSE IF msg.kind = "bad json" THEN None
    ELSE Some(msg.request)

\* len(json.dumps(s)) for a string s: the quotes, and two characters for
\* each of those of the model's texts that json.dumps escapes
JsonStringLen(s) ==
    Len(s) + 2
    + Cardinality({i \in 1..Len(s) : SubSeq(s, i, i) \in {"\n", "\t", "\r", "\"", "\\"}})
\* the length of `"k":v` in the payload: success is a bool, exit_code an
\* int, every other field of a response a string
JsonFieldLen(k, v) ==
    Len(k) + 3 + (CASE k = "success" -> IF v THEN 4 ELSE 5
                    [] k = "exit_code" -> Len(ToString(v))
                    [] OTHER -> JsonStringLen(v))
RECURSIVE JsonFieldsLen(_, _)
JsonFieldsLen(data, keys) ==
    IF keys = {} THEN 0
    ELSE LET k == CHOOSE x \in keys : TRUE
         IN  JsonFieldLen(k, data[k]) + JsonFieldsLen(data, keys \ {k})
\* encode_message: len(json.dumps(data, separators=(',', ':')).encode('utf-8'))
PayloadLen(data) ==
    LET n == Cardinality(DOMAIN data)
    IN  2 + (IF n = 0 THEN 0 ELSE n - 1) + JsonFieldsLen(data, DOMAIN data)

\* encode_message(data): the length of the payload it frames, None when it
\* raises ProtocolError
encode_message(data) ==
    IF PayloadLen(data) > MAX_MESSAGE_SIZE THEN None ELSE Some(PayloadLen(data))

\* write_message(sock, data): what goes out on the socket, None when
\* encode_message raised and nothing was sent
write_message(data) == IF IsNone(encode_message(data)) THEN None ELSE Some(data)

\* GitPlugin.health() and GitPlugin.capabilities(): liveness, and the
\* operations the plugin allows
PluginHealth == [success |-> TRUE, status |-> "healthy"]
PluginCapabilities == [success |-> TRUE, tool |-> "git"]

\* PluginServer._process_request(request), given what the plugin's validate
\* answers and how its execute runs
PluginProcessRequest(request, valid, run) ==
    LET action == Get(request, "action", "exec")
    IN  CASE action = "health" -> [response |-> PluginHealth, events |-> << >>]
          [] action = "capabilities" -> [response |-> PluginCapabilities, events |-> << >>]
          [] action = "exec" ->
                IF ~valid
                THEN [response |-> [success |-> FALSE, exit_code |-> 1, stdout |-> "",
                                    stderr |-> "", error |-> "blocked"],
                      events |-> <<"validate">>]
                ELSE IF run.exc # ""
                THEN [response |-> [success |-> FALSE, exit_code |-> 1, stdout |-> "",
                                    stderr |-> run.exc,
                                    error |-> "Execution failed: " \o run.exc],
                      events |-> <<"validate", "execute">>]
                ELSE [response |-> [success |-> run.rc = 0, exit_code |-> run.rc,
                                    stdout |-> run.stdout, stderr |-> run.stderr],
                      events |-> <<"validate", "execute">>]
          [] OTHER -> [response |-> [success |-> FALSE,
                                     error |-> "Unknown action: " \o action],
                       events |-> << >>]

-----------------------------------------------------------------------------
(* Client connections *)

\* the clients of a modelled run, and the most requests one of them writes
\* on its connection
MaxClients == 2
MaxSends == 2
Clients == 1..MaxClients

\* a client that has not connected: at is "idle", then "queued" (connected,
\* waiting in the listen backlog), "recv" (accepted, its handler in recv),
\* "run" (its handler in subprocess.run), "closed"; sent counts the requests
\* the client wrote, read those the handler took from the socket, processed
\* those it routed, responses those it answered
IdleClient == [at |-> "idle", sent |-> 0, read |-> 0, processed |-> 0, responses |-> 0]
NoClients == [c \in Clients |-> IdleClient]

-----------------------------------------------------------------------------
(* Tool server: the ToolCaller's wrapper lookup *)

\* the one tool name of the model
ToolName == "git"

\* the wrapper candidates in lookup order: three in the tool's own
\* directory, three in the global restricted directory
WrapperCandidates ==
    <<[where |-> "tool", suffix |-> ".py"], [where |-> "tool", suffix |-> ".sh"],
      [where |-> "tool", suffix |-> ""],
      [where |-> "global", suffix |-> ".py"], [where |-> "global", suffix |-> ".sh"],
      [where |-> "global", suffix |-> ""]>>

\* what is on disk at the six candidate paths: "absent", a "file" without
\* the executable bit, an "exec" file, or a "dir"
NoWrappers == [i \in 1..6 |-> "absent"]
WrapperLayouts ==
    {NoWrappers,
     [NoWrappers EXCEPT ![1] = "file"],
     [NoWrappers EXCEPT ![2] = "exec"],
     [NoWrappers EXCEPT ![2] = "file"],
     [NoWrappers EXCEPT ![3] = "exec"],
     [NoWrappers EXCEPT ![3] = "file"],
     [NoWrappers EXCEPT ![1] = "dir", ![5] = "exec"],
     [NoWrappers EXCEPT ![5] = "file"],
     [NoWrappers EXCEPT ![2] = "file", ![4] = "file"],
     [NoWrappers EXCEPT ![6] = "exec"]}

\* the tools.d entry of the tool: whether its directory exists, its
\* tool.json ("none", "ok", "invalid"), whether the binary it names, or the
\* one at a standard path, exists, whether it has a setup.sh, and its wrappers
ToolDirs ==
    [dir : BOOLEAN, manifest : {"none", "ok", "invalid"}, binary : BOOLEAN,
     setup : BOOLEAN, files : WrapperLayouts]

\* find_wrapper: candidate i is taken
\* (candidate.exists() and candidate.is_file(), then X_OK or suffix '.py')
WrapperTaken(f, i) ==
    /\ WrapperCandidates[i].where = "tool" => f.dir
    /\ f.files[i] \in {"file", "exec"}
    /\ f.files[i] = "exec" \/ WrapperCandidates[i].suffix = ".py"

\* ToolCaller.find_wrapper(tool): the first candidate taken, 0 for None
find_wrapper(f) ==
    LET found == {i \in 1..6 : WrapperTaken(f, i)}
    IN  IF found = {} THEN 0 ELSE CHOOSE i \in found : \A j \in found : i <= j

\* _try_lazy_discover / discover_tools: a configuration can be made for the
\* tool (tool.json loads, or the binary is found at a standard path)
Discoverable(f) ==
    /\ f.dir
    /\ f.manifest = "ok" \/ (f.manifest = "none" /\ f.binary)

\* the connection threads of a modelled run
MaxWorkers == 2
Workers == 1..MaxWorkers

\* no tool server in this process
NoToolCaller ==
    /\ tools = {}
    /\ setup_completed = {}
    /\ fs = [dir |-> FALSE, manifest |-> "none", binary |-> FALSE, setup |-> FALSE,
             files |-> NoWrappers]
    /\ workers = << >>
    /\ subprocesses = << >>

-----------------------------------------------------------------------------
(* The life of a store: construction at start-up, destruction at shutdown *)

InitStore ==
    /\ agent \in Agents
    /\ phase = "start"
    /\ environ \in Environments(agent, TRUE)
    /\ startEnviron = environ
    /\ mlockOk \in BOOLEAN
    /\ secrets = EmptyDict
    /\ heap = EmptyDict
    /\ credentials = EmptyDict
    /\ resolved = {}
    /\ allowed_uids = {1000}
    /\ blocked = DefaultBlocked
    /\ allow_patterns = << >>
    /\ policy = DefaultPolicy
    /\ conn = NoConn
    /\ response = None
    /\ events = << >>
    /\ running = FALSE
    /\ signalled = FALSE
    /\ sock = "none"
    /\ sockFile = FALSE
    /\ destroyCalls = 0
    /\ threads = << >>
    /\ call = NoCall
    /\ result = None
    /\ clients = NoClients
    /\ NoToolCaller

\* CommandAgent.__init__ / CredentialAgent.__init__: self.store = CredentialStore()
StoreInit ==
    /\ phase = "start"
    /\ agent \in {"command", "credential"}
    /\ LET st == Constructed(agent, environ, mlockOk)
       IN  /\ secrets' = st.secrets
           /\ heap' = st.heap
           /\ environ' = st.environ
    /\ phase' = "running"
    /\ UNCHANGED <<startEnviron, mlockOk, credentials, resolved, configVars, connVars>>
    /\ UNCHANGED <<runVars, fnVars, clientVars, toolVars>>

\* plugin main(): plugin.load_credentials(credential_vars, clear_env=True)
PluginLoadCredentials ==
    /\ phase = "start"
    /\ agent = "plugin"
    /\ LET st == Constructed(agent, environ, mlockOk)
       IN  /\ credentials' = st.credentials
           /\ environ' = st.environ
    /\ phase' = "running"
    /\ UNCHANGED <<startEnviron, mlockOk, secrets, heap, resolved, configVars, connVars>>
    /\ UNCHANGED <<runVars, fnVars, clientVars, toolVars>>

\* run(): the while loop finds self.running false, then self.store.destroy_all()
DestroyAll ==
    /\ phase = "running"
    /\ ~running
    /\ agent \in {"command", "credential"}
    /\ destroyCalls' = destroyCalls + 1
    /\ resolved' = {n \in DOMAIN secrets : ~IsNone(StoreGet(secrets, heap, n))}
    /\ heap' = DestroyEach(heap, secrets, DOMAIN secrets)
    /\ secrets' = SecretsAfterClear(secrets)
    /\ phase' = "destroyed"
    /\ UNCHANGED <<environ, startEnviron, mlockOk, credentials, configVars, connVars>>
    /\ UNCHANGED <<running, signalled, sock, sockFile, threads, fnVars, clientVars, toolVars>>

\* the most calls of destroy_all on one store
MaxDestroyCalls == 2

\* CredentialStore.destroy_all called again on a store already destroyed
DestroyAgain ==
    /\ phase = "destroyed"
    /\ destroyCalls < MaxDestroyCalls
    /\ destroyCalls' = destroyCalls + 1
    /\ heap' = DestroyEach(heap, secrets, DOMAIN secrets)
    /\ secrets' = SecretsAfterClear(secrets)
    /\ UNCHANGED <<phase, environ, startEnviron, mlockOk, credentials, resolved, configVars,
                   connVars>>
    /\ UNCHANGED <<running, signalled, sock, sockFile, threads, fnVars, clientVars, toolVars>>

NextStore == StoreInit \/ PluginLoadCredentials \/ DestroyAll \/ DestroyAgain

SpecStore == InitStore /\ [][NextStore]_vars


-----------------------------------------------------------------------------
(* Serving connections *)

\* the longest modelled argv of an exec request
MaxArgs == 3

\* the peer uids the kernel may report
Uids == {1000, 4242}

RECURSIVE SeqsUpTo(_, _)
SeqsUpTo(S, n) ==
    IF n = 0 THEN {<< >>}
    ELSE LET shorter == SeqsUpTo(S, n - 1)
         IN  shorter \cup {<<x>> \o t : x \in S, t \in {u \in shorter : Len(u) = n - 1}}

ArgTokens == {"push", "origin", "main", "rel/1", "config", "--global"}

\* the exec requests of the model: every git argv over ArgTokens up to
\* MaxArgs tokens, and a few invocations of the other commands
CmdExecRequests ==
    {[action |-> "exec", cmd |-> "git", args |-> a] : a \in SeqsUpTo(ArgTokens, MaxArgs)}
    \cup {[action |-> "exec", cmd |-> "gh", args |-> a] :
            a \in {<< >>, <<"pr", "list">>, <<"auth", "token">>, <<"config", "list">>}}
    \cup {[action |-> "exec", cmd |-> "git",
           args |-> <<"-C", "/workspace", "config", "--global", "user.name", "x">>]}
    \cup {[action |-> "exec", cmd |-> "curl", args |-> <<"https://example.org">>],
          [action |-> "exec", cmd |-> "rm", args |-> <<"-rf", "/">>],
          [action |-> "exec"],
          [cmd |-> "git", args |-> <<"status">>]}

CmdRequests ==
    CmdExecRequests
    \cup {[action |-> "health"], [action |-> "shutdown"],
          [action |-> "exec", cmd |-> "git", args |-> <<"status">>, uid |-> 1000, pid |-> 1],
          [action |-> "health", uid |-> 1000]}

\* how `git branch --show-current` may run
CurrentBranchRuns ==
    {Completed(0, "main\n", ""), Completed(0, "rel/1\n", ""), Completed(0, "", ""),
     Completed(128, "", "fatal: not a git repository"), Raised("TimeoutExpired")}

\* how the command may run with these variables injected: it may print
\* anything, the injected values included
CommandRuns(injected) ==
    {Completed(0, "ok\n", ""), Completed(1, "", "fatal: failed"),
     Raised("TimeoutExpired"), Raised("FileNotFoundError"),
     Raised("[Errno 13] Permission denied")}
    \cup {Completed(0, injected[k] \o "\n", "") : k \in DOMAIN injected \cap {"GIT_PASSWORD", "GH_TOKEN"}}
    \cup {Completed(128, "", "fatal: unable to access 'https://x-access-token:"
                             \o injected[k] \o "@github.com/'") :
            k \in DOMAIN injected \cap {"GIT_PASSWORD", "GH_TOKEN"}}

\* what recv may give on a connection
DataKinds == {"timeout", "empty", "bad json", "not a dict", "request"}

\* CommandAgent._handle_connection(conn)
CmdHandleConnection ==
    /\ agent = "command"
    /\ phase = "running"
    /\ conn = NoConn
    /\ \E uid \in Uids, kind \in DataKinds :
        \/ /\ kind \in {"timeout", "empty"}
           /\ conn' = [kind |-> kind, uid |-> uid]
           /\ response' = None
           /\ events' = << >>
        \/ /\ kind = "bad json"
           /\ conn' = [kind |-> kind, uid |-> uid]
           /\ response' = Some([error |-> "Invalid JSON", exit_code |-> 1])
           /\ events' = << >>
        \/ /\ kind = "not a dict"
           /\ conn' = [kind |-> kind, uid |-> uid]
           /\ response' =
                IF uid \notin allowed_uids
                THEN Some([error |-> "Access denied for UID " \o ToString(uid),
                           exit_code |-> 1])
                ELSE Some([error |-> "'list' object has no attribute 'get'",
                           exit_code |-> 1])
           /\ events' = <<"check uid">>
        \/ /\ kind = "request"
           /\ \E request \in CmdRequests :
                LET cmd == Get(request, "cmd", "")
                    args == Get(request, "args", << >>)
                    isExec == uid \in allowed_uids /\ Get(request, "action", "exec") = "exec"
                                /\ cmd # ""
                IN  \E cb \in IF isExec /\ QueriesCurrentBranch(cmd, args)
                              THEN CurrentBranchRuns ELSE {NotRun} :
                    \E run \in IF isExec /\ validate_command(cmd, args, cb).ok
                               THEN CommandRuns(InjectedEnv(cmd, secrets, heap))
                               ELSE {NotRun} :
                        LET h == CmdHandleRequest(uid, request, secrets, heap, cb, run)
                        IN  /\ conn' = [kind |-> kind, uid |-> uid, request |-> request,
                                        cb |-> cb, run |-> run]
                            /\ response' = Some(h.response)
                            /\ events' = h.events
    /\ UNCHANGED <<phase, storeVars, configVars, runVars, fnVars, clientVars, toolVars>>

\* the requests sent to the credential agent
CredTools == {"github", "aws", "npm", "x"}
CredRequests ==
    {[action |-> a, tool |-> t] : a \in {"get", "inject", "sign", "check"}, t \in CredTools}
    \cup {[action |-> a, tool |-> t, operation |-> "push"] :
            a \in {"get", "inject", "check"}, t \in {"github", "x"}}
    \cup {[action |-> "sign", tool |-> t, data |-> "payload"] : t \in CredTools}
    \cup {[action |-> "get"], [action |-> "list"], [action |-> "health"],
          [action |-> "delete", tool |-> "github"], [tool |-> "github"],
          [action |-> "get", tool |-> "github", uid |-> 1000, pid |-> 1],
          [action |-> "list", uid |-> 1000]}

\* CredentialAgent._handle_connection(conn)
CredHandleConnection ==
    /\ agent = "credential"
    /\ phase = "running"
    /\ conn = NoConn
    /\ \E uid \in Uids, kind \in DataKinds :
        \/ /\ kind \in {"timeout", "empty"}
           /\ conn' = [kind |-> kind, uid |-> uid]
           /\ response' = None
           /\ events' = << >>
        \/ /\ kind = "bad json"
           /\ conn' = [kind |-> kind, uid |-> uid]
           /\ response' = Some([error |-> "Invalid JSON"])
           /\ events' = << >>
        \/ /\ kind = "not a dict"
           /\ conn' = [kind |-> kind, uid |-> uid]
           /\ response' = Some([error |-> "'list' object has no attribute 'get'"])
           /\ events' = << >>
        \/ /\ kind = "request"
           /\ \E request \in CredRequests :
                LET h == CredHandle(uid, request, secrets, heap)
                IN  /\ conn' = [kind |-> kind, uid |-> uid, request |-> request]
                    /\ response' = Some(h.response)
                    /\ events' = h.events
    /\ UNCHANGED <<phase, storeVars, configVars, runVars, fnVars, clientVars, toolVars>>

\* the messages sent to a plugin server: what arrives, and the length its
\* prefix announces; the payload that decodes to a JSON array is held in a
\* record of its own, apart from the objects
PluginRequests ==
    {[action |-> "health"], [action |-> "capabilities"], [action |-> "restart"],
     [action |-> "exec", args |-> <<"status">>], [args |-> <<"push", "origin", "main">>]}
PluginMessages ==
    {[kind |-> "closed", length |-> 0], [kind |-> "bad json", length |-> 10],
     [kind |-> "request", length |-> MAX_MESSAGE_SIZE + 1, request |-> [action |-> "health"]]}
    \cup {[kind |-> "request", length |-> 40, request |-> r] : r \in PluginRequests}
    \cup {[kind |-> "request", length |-> MAX_MESSAGE_SIZE, request |-> [action |-> "health"]],
          [kind |-> "bad json", length |-> MAX_MESSAGE_SIZE + 1]}
    \cup {[kind |-> "not a dict", length |-> 2, request |-> [array |-> <<"a", "list">>]]}

\* how the plugin's execute may run
PluginRuns == {Completed(0, "ok\n", ""), Completed(1, "", "fatal: failed"),
               Raised("TimeoutExpired")}

\* PluginServer._handle_connection(conn): what it does with one connection
PluginHandle ==
    \E uid \in Uids, sockopt_ok \in BOOLEAN, msg \in PluginMessages :
     \/ /\ ~PluginPeerAdmitted(uid, sockopt_ok)
        /\ conn' = [kind |-> "unread", uid |-> uid, sockopt_ok |-> sockopt_ok]
        /\ response' =
             write_message([success |-> FALSE,
                            error |-> "Access denied for UID "
                                      \o ToString(verify_peer_uid(uid, sockopt_ok,
                                                                  allowed_uids).uid)])
        /\ events' = <<"verify_peer_uid">>
     \/ /\ PluginPeerAdmitted(uid, sockopt_ok)
        /\ allowed_uids # {} \/ sockopt_ok
        /\ \/ /\ \/ IsNone(read_message(msg))
                 \/ msg.kind = "not a dict"
              /\ conn' = [kind |-> msg.kind, uid |-> uid, sockopt_ok |-> sockopt_ok,
                          length |-> msg.length, read |-> ReadMessageSteps(msg)]
              /\ response' = None
              /\ events' = IF allowed_uids # {} THEN <<"verify_peer_uid", "read_message">>
                           ELSE <<"read_message">>
           \/ /\ ~IsNone(read_message(msg))
              /\ msg.kind = "request"
              /\ LET request == Val(read_message(msg))
                     isExec == Get(request, "action", "exec") = "exec"
                 IN  \E valid \in IF isExec THEN BOOLEAN ELSE {TRUE} :
                     \E run \in IF isExec /\ valid THEN PluginRuns ELSE {NotRun} :
                         LET h == PluginProcessRequest(request, valid, run)
                         IN  /\ conn' = [kind |-> msg.kind, uid |-> uid,
                                         sockopt_ok |-> sockopt_ok, length |-> msg.length,
                                         read |-> ReadMessageSteps(msg),
                                         request |-> request, valid |-> valid, run |-> run]
                             /\ response' = write_message(h.response)
                             /\ events' = (IF allowed_uids # {} THEN <<"verify_peer_uid">>
                                           ELSE << >>)
                                          \o <<"read_message">> \o h.events

\* PluginServer._handle_connection(conn), its thread taken as one step of the
\* accept loop
PluginHandleConnection ==
    /\ agent = "plugin"
    /\ phase = "running"
    /\ conn = NoConn
    /\ PluginHandle
    /\ UNCHANGED <<phase, storeVars, configVars, runVars, fnVars, clientVars, toolVars>>

\* BLOCKED_BRANCHES and ALLOWED_BRANCH_PATTERNS as configured
BranchConfigs ==
    {[blocked |-> DefaultBlocked, allow_patterns |-> << >>],
     [blocked |-> {"main"}, allow_patterns |-> <<"rel/*">>],
     [blocked |-> {"main"}, allow_patterns |-> <<"rel/*", "m*">>],
     [blocked |-> DefaultBlocked, allow_patterns |-> <<"*">>]}

\* the policy files of the model
ToolPolicies ==
    {EmptyDict,
     [t \in {"github"} |-> [enabled |-> FALSE, operations |-> [get |-> TRUE]]],
     [t \in {"github"} |-> [operations |-> [get |-> TRUE, sign |-> FALSE]]],
     [t \in {"github"} |-> [operations |-> EmptyDict]]}
Policies == {[tools |-> t, default_deny |-> d] : t \in ToolPolicies, d \in BOOLEAN}

\* the uid allowlists of the model; the command agent's comes from
\* int(uid) for uid in "...".split(","), which is never empty
AllowLists(a) == IF a = "command" THEN {{1000}} ELSE {{}, {1000}}

\* the brokers after construction, serving
Init ==
    /\ agent \in Agents
    /\ phase = "running"
    /\ startEnviron \in Environments(agent, FALSE)
    /\ mlockOk \in BOOLEAN
    /\ LET st == Constructed(agent, startEnviron, mlockOk)
       IN  /\ secrets = st.secrets
           /\ heap = st.heap
           /\ environ = st.environ
           /\ credentials = st.credentials
    /\ resolved = {}
    /\ allowed_uids \in AllowLists(agent)
    /\ \E bc \in IF agent = "command" THEN BranchConfigs
                 ELSE {[blocked |-> DefaultBlocked, allow_patterns |-> << >>]} :
            blocked = bc.blocked /\ allow_patterns = bc.allow_patterns
    /\ policy \in IF agent = "credential" THEN Policies ELSE {DefaultPolicy}
    /\ conn = NoConn
    /\ response = None
    /\ events = << >>
    /\ running = TRUE
    /\ signalled = FALSE
    /\ sock = "open"
    /\ sockFile = TRUE
    /\ destroyCalls = 0
    /\ threads = << >>
    /\ call = NoCall
    /\ result = None
    /\ clients = NoClients
    /\ NoToolCaller

\* the accept loop comes round: the connection was closed and the locals of
\* its handling are gone
BackToAccept ==
    /\ phase = "running"
    /\ running
    /\ conn # NoConn
    /\ conn' = NoConn
    /\ response' = None
    /\ events' = << >>
    /\ UNCHANGED <<phase, storeVars, configVars, runVars, fnVars, clientVars, toolVars>>

Next == CmdHandleConnection \/ CredHandleConnection \/ PluginHandleConnection \/ BackToAccept

Spec == Init /\ [][Next]_vars


-----------------------------------------------------------------------------
(* The life of a broker process: run() / start() from the loaded store to  *)
(* the exit of the process                                                 *)

\* the most worker threads a plugin server starts in a modelled run
MaxThreads == 2

\* the process after the store was loaded, before run() / start()
InitRun ==
    /\ agent \in Agents
    /\ phase = "loaded"
    /\ startEnviron \in Environments(agent, FALSE)
    /\ mlockOk = TRUE
    /\ LET st == Constructed(agent, startEnviron, mlockOk)
       IN  /\ secrets = st.secrets
           /\ heap = st.heap
           /\ environ = st.environ
           /\ credentials = st.credentials
    /\ resolved = {}
    /\ allowed_uids = {1000}
    /\ blocked = DefaultBlocked
    /\ allow_patterns = << >>
    /\ policy = DefaultPolicy
    /\ conn = NoConn
    /\ response = None
    /\ events = << >>
    /\ running = FALSE
    /\ signalled = FALSE
    /\ sock = "none"
    /\ sockFile \in BOOLEAN
    /\ destroyCalls = 0
    /\ threads = << >>
    /\ call = NoCall
    /\ result = None
    /\ clients = NoClients
    /\ NoToolCaller

\* run(): self.sock = self._setup_socket(); self.running = True
\* start(): unlink, mkdir, socket, bind, listen, chmod; self._running = True
\* A failure (unlink, mkdir, bind, chmod raising OSError) is raised out of
\* run() / start(): neither has a handler or a finally around the set-up.
SetupSocket ==
    /\ phase = "loaded"
    /\ \E ok \in BOOLEAN :
        IF ok
        THEN /\ sock' = "open"
             /\ sockFile' = TRUE
             /\ running' = TRUE
             /\ phase' = "running"
        ELSE /\ sock' \in {"none", "open"}
             /\ sockFile' \in {sockFile, FALSE}
             /\ running' = running
             /\ phase' = "exited"
    /\ UNCHANGED <<storeVars, configVars, connVars, signalled, destroyCalls, threads, fnVars, clientVars, toolVars>>

\* _signal_handler / _handle_signal: SIGTERM or SIGINT during the accept loop
Signal ==
    /\ phase = "running"
    /\ ~signalled
    /\ signalled' = TRUE
    /\ running' = FALSE
    /\ UNCHANGED <<phase, storeVars, configVars, connVars, sock, sockFile, destroyCalls,
                   threads, fnVars, clientVars, toolVars>>

\* run(): if self.sock: self.sock.close()
CloseSocket ==
    /\ phase = "destroyed"
    /\ agent \in {"command", "credential"}
    /\ sock' = "closed"
    /\ phase' = "closed"
    /\ UNCHANGED <<storeVars, configVars, connVars, running, signalled, sockFile,
                   destroyCalls, threads, fnVars, clientVars, toolVars>>

\* run(): if socket_path.exists(): socket_path.unlink(); run() returns
UnlinkSocket ==
    /\ phase = "closed"
    /\ agent \in {"command", "credential"}
    /\ sockFile' = FALSE
    /\ phase' = "exited"
    /\ UNCHANGED <<storeVars, configVars, connVars, running, signalled, sock,
                   destroyCalls, threads, fnVars, clientVars, toolVars>>

\* start(): accept(); threading.Thread(target=self._handle_connection).start()
PluginAccept ==
    /\ agent = "plugin"
    /\ phase = "running"
    /\ running
    /\ Len(threads) < MaxThreads
    /\ threads' = Append(threads, "running")
    /\ UNCHANGED <<phase, storeVars, configVars, connVars, running, signalled, sock,
                   sockFile, destroyCalls, fnVars, clientVars, toolVars>>

\* a worker thread runs _handle_connection to its end; daemon threads end
\* with the process
PluginWorker ==
    /\ agent = "plugin"
    /\ phase # "exited"
    /\ \E i \in DOMAIN threads :
        /\ threads[i] = "running"
        /\ threads' = [threads EXCEPT ![i] = "done"]
    /\ PluginHandle
    /\ UNCHANGED <<phase, storeVars, configVars, running, signalled, sock, sockFile,
                   destroyCalls, fnVars, clientVars, toolVars>>

\* start(): the while loop ends, because self._running is false or because
\* accept() or Thread.start() raised something other than socket.timeout;
\* the finally clause calls self.stop()
PluginLoopEnds ==
    /\ agent = "plugin"
    /\ phase = "running"
    /\ \E raised \in BOOLEAN : raised \/ ~running
    /\ phase' = "stopping"
    /\ UNCHANGED <<storeVars, configVars, connVars, runVars, fnVars, clientVars, toolVars>>

\* stop(): self._running = False; self._server_socket.close()
PluginStopClose ==
    /\ agent = "plugin"
    /\ phase = "stopping"
    /\ running' = FALSE
    /\ sock' = "closed"
    /\ phase' = "closed"
    /\ UNCHANGED <<storeVars, configVars, connVars, signalled, sockFile, destroyCalls,
                   threads, fnVars, clientVars, toolVars>>

\* stop(): if socket_file.exists(): socket_file.unlink()
PluginStopUnlink ==
    /\ agent = "plugin"
    /\ phase = "closed"
    /\ sockFile' = FALSE
    /\ phase' = "unlinked"
    /\ UNCHANGED <<storeVars, configVars, connVars, running, signalled, sock,
                   destroyCalls, threads, fnVars, clientVars, toolVars>>

\* stop(): for thread in self._threads: thread.join(timeout=5.0); a join
\* returns when its thread has ended or when the five seconds are over;
\* stop() and start() return and the process exits
PluginStopJoin ==
    /\ agent = "plugin"
    /\ phase = "unlinked"
    /\ phase' = "exited"
    /\ UNCHANGED <<storeVars, configVars, connVars, runVars, fnVars, clientVars, toolVars>>

NextRun ==
    \/ SetupSocket
    \/ Signal
    \/ CmdHandleConnection
    \/ CredHandleConnection
    \/ BackToAccept
    \/ DestroyAll
    \/ CloseSocket
    \/ UnlinkSocket
    \/ PluginAccept
    \/ PluginWorker
    \/ PluginLoopEnds
    \/ PluginStopClose
    \/ PluginStopUnlink
    \/ PluginStopJoin

SpecRun == InitRun /\ [][NextRun]_vars

\* the steps the main thread takes by itself once the loop condition is
\* false: accept() returns within its timeout of a second, a connection
\* handled inline returns within its own timeouts, and the cleanup after the
\* loop is straight-line code
Shutdown ==
    \/ BackToAccept
    \/ DestroyAll
    \/ CloseSocket
    \/ UnlinkSocket
    \/ PluginLoopEnds
    \/ PluginStopClose
    \/ PluginStopUnlink
    \/ PluginStopJoin

SpecRunFair == InitRun /\ [][NextRun]_vars /\ WF_vars(Shutdown)

-----------------------------------------------------------------------------
(* Connections side by side: the accept loop and the handlers, step by     *)
(* step between the calls that block (accept, recv, subprocess.run)        *)

\* a serving broker with no client connected yet
InitConn ==
    /\ agent \in Agents
    /\ phase = "running"
    /\ startEnviron = BaseEnv
    /\ mlockOk = TRUE
    /\ LET st == Constructed(agent, startEnviron, mlockOk)
       IN  /\ secrets = st.secrets
           /\ heap = st.heap
           /\ environ = st.environ
           /\ credentials = st.credentials
    /\ resolved = {}
    /\ allowed_uids = {1000}
    /\ blocked = DefaultBlocked
    /\ allow_patterns = << >>
    /\ policy = DefaultPolicy
    /\ conn = NoConn
    /\ response = None
    /\ events = << >>
    /\ running = TRUE
    /\ signalled = FALSE
    /\ sock = "open"
    /\ sockFile = TRUE
    /\ destroyCalls = 0
    /\ threads = << >>
    /\ call = NoCall
    /\ result = None
    /\ clients = NoClients
    /\ NoToolCaller

\* a client connects: the kernel completes the connection into the backlog
\* of the listening socket
ClientConnect ==
    /\ \E c \in Clients :
        /\ clients[c].at = "idle"
        /\ clients' = [clients EXCEPT ![c].at = "queued"]
    /\ UNCHANGED <<phase, storeVars, configVars, connVars, runVars, fnVars, toolVars>>

\* a client writes one more request on its connection
ClientSend ==
    /\ \E c \in Clients :
        /\ clients[c].at \in {"queued", "recv", "run"}
        /\ clients[c].sent < MaxSends
        /\ clients' = [clients EXCEPT ![c].sent = @ + 1]
    /\ UNCHANGED <<phase, storeVars, configVars, connVars, runVars, fnVars, toolVars>>

\* run(): the loop calls self._handle_connection(conn) itself and comes back
\* to accept() when that call has returned
LoopInHandler ==
    /\ agent \in {"command", "credential"}
    /\ \E c \in Clients : clients[c].at \in {"recv", "run"}

\* run(): conn, _ = self.sock.accept(); self._handle_connection(conn)
\* start(): conn, addr = accept(); Thread(target=self._handle_connection).start()
AcceptOf(c) ==
    /\ phase = "running"
    /\ running
    /\ clients[c].at = "queued"
    /\ ~LoopInHandler
    /\ clients' = [clients EXCEPT ![c].at = "recv"]
    /\ UNCHANGED <<phase, storeVars, configVars, connVars, runVars, fnVars, toolVars>>

Accept == \E c \in Clients : AcceptOf(c)

\* a handler going back to recv after its response
HandlerEnds_KeepAlive(cl) == [cl EXCEPT !.at = "recv"]

\* _handle_connection: finally: conn.close()
HandlerEnds(cl) == [cl EXCEPT !.at = "closed"]

\* _handle_connection: data = conn.recv(...) returns what has arrived, or
\* read_message(conn) takes one framed message; the request is decoded and
\* handled up to its response or up to the start of its subprocess.
\* Two requests received as one piece of data do not decode (json.loads:
\* extra data); the two agents answer that with 'Invalid JSON', the plugin
\* server answers nothing to a ProtocolError or to an exception
Recv ==
    /\ \E c \in Clients :
        /\ clients[c].at = "recv"
        /\ clients[c].sent > clients[c].read
        /\ LET n == IF agent = "plugin" THEN 1 ELSE clients[c].sent - clients[c].read
           IN  \E wellFormed \in BOOLEAN :
               LET decoded == wellFormed /\ n = 1
               IN  \E spawns \in IF decoded /\ agent # "credential" THEN BOOLEAN ELSE {FALSE},
                      answered \in IF agent = "plugin" THEN (IF decoded THEN BOOLEAN ELSE {FALSE})
                                   ELSE {TRUE} :
                    clients' =
                      [clients EXCEPT ![c] =
                        IF spawns
                        THEN [@ EXCEPT !.at = "run", !.read = @ + n, !.processed = @ + 1]
                        ELSE HandlerEnds([@ EXCEPT !.read = @ + n,
                                                   !.processed = @ + (IF decoded THEN 1 ELSE 0),
                                                   !.responses = @ + (IF answered THEN 1 ELSE 0)])]
    /\ UNCHANGED <<phase, storeVars, configVars, connVars, runVars, fnVars, toolVars>>

\* _handle_connection: recv gives nothing: the peer closed, or (the two
\* agents, conn.settimeout) the connection timed out; no response
RecvNothing ==
    /\ \E c \in Clients :
        /\ clients[c].at = "recv"
        /\ clients[c].sent = clients[c].read
        /\ clients' = [clients EXCEPT ![c] = HandlerEnds(@)]
    /\ UNCHANGED <<phase, storeVars, configVars, connVars, runVars, fnVars, toolVars>>

\* subprocess.run returns, or its timeout kills the child; the response is
\* sent (the plugin server sends none when write_message raises)
SubprocessEnds ==
    /\ \E c \in Clients :
        /\ clients[c].at = "run"
        /\ \E answered \in IF agent = "plugin" THEN BOOLEAN ELSE {TRUE} :
            clients' = [clients EXCEPT ![c] =
                          HandlerEnds([@ EXCEPT !.responses = @ + (IF answered THEN 1 ELSE 0)])]
    /\ UNCHANGED <<phase, storeVars, configVars, connVars, runVars, fnVars, toolVars>>

NextConn == ClientConnect \/ ClientSend \/ Accept \/ Recv \/ RecvNothing \/ SubprocessEnds

SpecConn == InitConn /\ [][NextConn]_vars

-----------------------------------------------------------------------------
(* The push parser and the validator, called on their own *)

\* the longest modelled argv after the push token
MaxPushArgs == 3

\* remotes, branches, refspecs with colons, flags with and without a value
PushTokens ==
    {"origin", "upstream", "main", "feature", "a:b:c", ":deleteme", "src:", "src:dst",
     "-u", "-o", "--repo", "--bogus"}

PushArgvs == SeqsUpTo(PushTokens, MaxPushArgs)

\* git's own options standing before the subcommand, and the push argvs
\* validated behind them
PrefixedPushes ==
    {pre \o <<"push">> \o a :
        pre \in {<<"-C", "/workspace">>, <<"-c", "user.name=x">>, <<"--no-pager">>},
        a \in {<<"origin", "main">>, <<"origin", "feature">>, <<"origin">>}}

PushCalls ==
    {[fn |-> "extract_push_branch", args |-> a] : a \in PushArgvs}
    \cup {[fn |-> "validate_command", cmd |-> "git", args |-> a, cb |-> NotRun] :
            a \in PrefixedPushes}
    \cup {c \in [fn : {"validate_command"}, cmd : {"git"},
                  args : {<<"push">> \o a : a \in PushArgvs},
                  cb : CurrentBranchRuns \cup {NotRun}] :
            c.cb \in IF QueriesCurrentBranch(c.cmd, c.args)
                     THEN CurrentBranchRuns ELSE {NotRun}}

\* a command agent with the default branch configuration, about to make one call
InitPush ==
    /\ agent = "command"
    /\ phase = "running"
    /\ startEnviron = BaseEnv
    /\ mlockOk = TRUE
    /\ LET st == Constructed(agent, startEnviron, mlockOk)
       IN  /\ secrets = st.secrets
           /\ heap = st.heap
           /\ environ = st.environ
           /\ credentials = st.credentials
    /\ resolved = {}
    /\ allowed_uids = {1000}
    /\ blocked = DefaultBlocked
    /\ allow_patterns = << >>
    /\ policy = DefaultPolicy
    /\ conn = NoConn
    /\ response = None
    /\ events = << >>
    /\ running = TRUE
    /\ signalled = FALSE
    /\ sock = "open"
    /\ sockFile = TRUE
    /\ destroyCalls = 0
    /\ threads = << >>
    /\ call \in PushCalls
    /\ result = None
    /\ clients = NoClients
    /\ NoToolCaller

\* branch = extract_push_branch(args[1:]); P is the list its loop built
CallExtractPushBranch ==
    /\ call.fn = "extract_push_branch"
    /\ result = None
    /\ result' = Some([P |-> NonOptionArgs(call.args, FALSE),
                       branch |-> extract_push_branch(call.args)])
    /\ UNCHANGED <<phase, storeVars, configVars, connVars, runVars, call, clientVars, toolVars>>

\* validate_command(cmd, args, cwd)
CallValidateCommand ==
    /\ call.fn = "validate_command"
    /\ result = None
    /\ result' = Some(validate_command(call.cmd, call.args, call.cb))
    /\ UNCHANGED <<phase, storeVars, configVars, connVars, runVars, call, clientVars, toolVars>>

NextPush == CallExtractPushBranch \/ CallValidateCommand

SpecPush == InitPush /\ [][NextPush]_vars

-----------------------------------------------------------------------------
(* Captured output: execute_command and the CLI server's _process, called  *)
(* with outputs around the cap                                             *)

\* ALLOWED_TOOLS of the CLI server, and the timeout of its one tool
CliAllowedTools == {"git"}
CliTimeout == 300

\* CLIServer._process(request), given whether the tool's binary exists and
\* how the subprocess ran
CliProcess(request, exists, run) ==
    LET tool == Get(request, "tool", "")
    IN  IF tool \notin CliAllowedTools
        THEN [exit_code |-> 1, stdout |-> "", stderr |-> "",
              error |-> "Unknown tool: " \o tool]
        ELSE IF ~exists
        THEN [exit_code |-> 127, stdout |-> "", stderr |-> "",
              error |-> "Tool not installed: " \o tool]
        ELSE CASE run.exc = "" ->
                    [exit_code |-> run.rc, stdout |-> run.stdout, stderr |-> run.stderr]
               [] run.exc = "TimeoutExpired" ->
                    [exit_code |-> 124, stdout |-> "",
                     stderr |-> "Command timed out after " \o ToString(CliTimeout) \o "s",
                     error |-> "Timeout"]
               [] OTHER ->
                    [exit_code |-> 1, stdout |-> "", stderr |-> run.exc,
                     error |-> "Execution failed: " \o run.exc]

\* a text of n characters
RECURSIVE Text(_)
Text(n) ==
    IF n = 0 THEN ""
    ELSE IF n % 2 = 1 THEN "x" \o Text(n - 1)
    ELSE LET half == Text(n \div 2) IN half \o half

\* what a child may have printed on a stream: nothing, a line, and texts
\* one short of the cap, at the cap and one over it
CapturedTexts ==
    {"", "ok\n", Text(MAX_OUTPUT_SIZE - 1), Text(MAX_OUTPUT_SIZE), Text(MAX_OUTPUT_SIZE + 1)}

OutputRuns ==
    {Completed(rc, out, err) : rc \in {0, 1}, out \in CapturedTexts, err \in CapturedTexts}
    \cup {Raised("TimeoutExpired"), Raised("FileNotFoundError"),
          Raised("[Errno 13] Permission denied")}

\* how a plugin's execute may run: short outputs, and a stdout that makes
\* the encoded response exactly MAX_MESSAGE_SIZE bytes, one byte more, and
\* of MAX_MESSAGE_SIZE characters itself
PluginOutputRuns ==
    {Completed(rc, out, "") :
        rc \in {0, 1},
        out \in {"", "ok\n", Text(MAX_MESSAGE_SIZE - 54), Text(MAX_MESSAGE_SIZE - 53),
                 Text(MAX_MESSAGE_SIZE)}}
    \cup {Completed(1, "", Text(MAX_MESSAGE_SIZE)), Raised("TimeoutExpired")}

OutputCalls ==
    {[fn |-> "execute_command", cmd |-> c, args |-> <<"status">>, run |-> r] :
        c \in ALLOWED_COMMANDS, r \in OutputRuns}
    \cup {[fn |-> "_handle_connection", request |-> q, valid |-> v,
           run |-> IF Get(q, "action", "exec") = "exec" /\ v THEN r ELSE NotRun] :
            q \in {[action |-> "exec", args |-> <<"log">>], [action |-> "health"]},
            v \in BOOLEAN, r \in PluginOutputRuns}
    \cup {[fn |-> "_process", request |-> [tool |-> t, args |-> <<"status">>],
           exists |-> e, run |-> IF t \in CliAllowedTools /\ e THEN r ELSE NotRun] :
            t \in {"git", "npm"}, e \in BOOLEAN, r \in OutputRuns}

\* a command agent and a CLI server, about to make one call
InitOutput ==
    /\ agent = "command"
    /\ phase = "running"
    /\ startEnviron = BaseEnv
    /\ mlockOk = TRUE
    /\ LET st == Constructed(agent, startEnviron, mlockOk)
       IN  /\ secrets = st.secrets
           /\ heap = st.heap
           /\ environ = st.environ
           /\ credentials = st.credentials
    /\ resolved = {}
    /\ allowed_uids = {1000}
    /\ blocked = DefaultBlocked
    /\ allow_patterns = << >>
    /\ policy = DefaultPolicy
    /\ conn = NoConn
    /\ response = None
    /\ events = << >>
    /\ running = TRUE
    /\ signalled = FALSE
    /\ sock = "open"
    /\ sockFile = TRUE
    /\ destroyCalls = 0
    /\ threads = << >>
    /\ call \in OutputCalls
    /\ result = None
    /\ clients = NoClients
    /\ NoToolCaller

\* execute_command(cmd, args, cwd, store)
CallExecuteCommand ==
    /\ call.fn = "execute_command"
    /\ result = None
    /\ result' = Some(execute_command(call.cmd, call.args, call.run))
    /\ UNCHANGED <<phase, storeVars, configVars, connVars, runVars, call, clientVars, toolVars>>

\* CLIServer._process(request)
CallCliProcess ==
    /\ call.fn = "_process"
    /\ result = None
    /\ result' = Some(CliProcess(call.request, call.exists, call.run))
    /\ UNCHANGED <<phase, storeVars, configVars, connVars, runVars, call, clientVars, toolVars>>

\* PluginServer._handle_connection from _process_request on, for a request
\* read from an admitted peer: the response made and what write_message sent
CallPluginRespond ==
    /\ call.fn = "_handle_connection"
    /\ result = None
    /\ LET h == PluginProcessRequest(call.request, call.valid, call.run)
       IN  result' = Some([response |-> h.response, sent |-> write_message(h.response)])
    /\ UNCHANGED <<phase, storeVars, configVars, connVars, runVars, call, clientVars, toolVars>>

NextOutput == CallExecuteCommand \/ CallCliProcess \/ CallPluginRespond

SpecOutput == InitOutput /\ [][NextOutput]_vars

-----------------------------------------------------------------------------
(* The tool server: connection threads inside ToolCaller.call, each step   *)
(* the code between two places where another thread can run                *)

\* a tool server serving, no thread started yet (pc "idle", nothing
\* returned from call()): the tool is registered, with its setup marked
\* done, if discover_tools found it at construction; a tool found on disk
\* but not registered is one whose directory was added since
InitTool ==
    /\ agent = "tool"
    /\ phase = "running"
    /\ startEnviron = BaseEnv
    /\ mlockOk = TRUE
    /\ environ = BaseEnv
    /\ secrets = EmptyDict
    /\ heap = EmptyDict
    /\ credentials = EmptyDict
    /\ resolved = {}
    /\ allowed_uids = {}
    /\ blocked = DefaultBlocked
    /\ allow_patterns = << >>
    /\ policy = DefaultPolicy
    /\ conn = NoConn
    /\ response = None
    /\ events = << >>
    /\ running = TRUE
    /\ signalled = FALSE
    /\ sock = "open"
    /\ sockFile = TRUE
    /\ destroyCalls = 0
    /\ threads = << >>
    /\ call = NoCall
    /\ result = None
    /\ clients = NoClients
    /\ fs \in ToolDirs
    /\ tools \in IF Discoverable(fs) THEN {{}, {ToolName}} ELSE {{}}
    /\ setup_completed = tools
    /\ workers = [w \in Workers |-> [pc |-> "idle", returned |-> "none"]]
    /\ subprocesses = << >>

\* ToolServer.start: the accept loop starts a thread for a connection, and
\* the thread reaches ToolCaller.call(tool, args, cwd)
StartWorker(w) ==
    /\ workers[w].pc = "idle"
    /\ workers' = [workers EXCEPT ![w].pc = "call"]
    /\ UNCHANGED <<tools, setup_completed, subprocesses>>
    /\ UNCHANGED <<phase, storeVars, configVars, connVars, runVars, fnVars, clientVars, fs>>

\* call: `if tool not in self.tools`
CheckRegistered(w) ==
    /\ workers[w].pc = "call"
    /\ workers' = [workers EXCEPT
                     ![w].pc = IF ToolName \in tools THEN "config" ELSE "lazy_discover"]
    /\ UNCHANGED <<tools, setup_completed, subprocesses>>
    /\ UNCHANGED <<phase, storeVars, configVars, connVars, runVars, fnVars, clientVars, fs>>

\* _try_lazy_discover up to register_tool; call returns "Unknown tool" when
\* it returns False
LazyDiscover(w) ==
    /\ workers[w].pc = "lazy_discover"
    /\ IF Discoverable(fs)
       THEN /\ tools' = tools \cup {ToolName}
            /\ workers' = [workers EXCEPT ![w].pc = "setup"]
       ELSE /\ tools' = tools
            /\ workers' = [workers EXCEPT ![w] = [pc |-> "done", returned |-> "Unknown tool"]]
    /\ UNCHANGED <<setup_completed, subprocesses>>
    /\ UNCHANGED <<phase, storeVars, configVars, connVars, runVars, fnVars, clientVars, fs>>

\* _run_setup_if_needed up to the start of subprocess.run(['bash', setup.sh])
RunSetupIfNeeded(w) ==
    /\ workers[w].pc = "setup"
    /\ IF ToolName \in setup_completed
       THEN /\ workers' = [workers EXCEPT ![w].pc = "config"]
            /\ UNCHANGED <<setup_completed, subprocesses>>
       ELSE IF ~fs.setup
       THEN /\ setup_completed' = setup_completed \cup {ToolName}
            /\ workers' = [workers EXCEPT ![w].pc = "config"]
            /\ UNCHANGED subprocesses
       ELSE /\ subprocesses' = Append(subprocesses, "setup.sh")
            /\ workers' = [workers EXCEPT ![w].pc = "in setup"]
            /\ UNCHANGED setup_completed
    /\ UNCHANGED tools
    /\ UNCHANGED <<phase, storeVars, configVars, connVars, runVars, fnVars, clientVars, fs>>

\* _run_setup_if_needed after subprocess.run returned or raised
SetupEnds(w) ==
    /\ workers[w].pc = "in setup"
    /\ setup_completed' = setup_completed \cup {ToolName}
    /\ workers' = [workers EXCEPT ![w].pc = "config"]
    /\ UNCHANGED <<tools, subprocesses>>
    /\ UNCHANGED <<phase, storeVars, configVars, connVars, runVars, fnVars, clientVars, fs>>

\* call from `config = self.tools[tool]` to the start of subprocess.run in
\* _execute_wrapper or _execute_direct
Execute(w) ==
    /\ workers[w].pc = "config"
    /\ IF ~fs.binary
       THEN /\ workers' = [workers EXCEPT
                             ![w] = [pc |-> "done", returned |-> "Tool not installed"]]
            /\ UNCHANGED subprocesses
       ELSE /\ subprocesses' =
                    Append(subprocesses, IF find_wrapper(fs) > 0 THEN "wrapper" ELSE "binary")
            /\ workers' = [workers EXCEPT ![w].pc = "executing"]
    /\ UNCHANGED <<tools, setup_completed>>
    /\ UNCHANGED <<phase, storeVars, configVars, connVars, runVars, fnVars, clientVars, fs>>

\* _execute_wrapper / _execute_direct after subprocess.run returned or raised
ExecuteEnds(w) ==
    /\ workers[w].pc = "executing"
    /\ workers' = [workers EXCEPT ![w] = [pc |-> "done", returned |-> "result"]]
    /\ UNCHANGED <<tools, setup_completed, subprocesses>>
    /\ UNCHANGED <<phase, storeVars, configVars, connVars, runVars, fnVars, clientVars, fs>>

NextTool ==
    \E w \in Workers :
        \/ StartWorker(w)
        \/ CheckRegistered(w)
        \/ LazyDiscover(w)
        \/ RunSetupIfNeeded(w)
        \/ SetupEnds(w)
        \/ Execute(w)
        \/ ExecuteEnds(w)

SpecTool == InitTool /\ [][NextTool]_vars

-----------------------------------------------------------------------------
(* What the claims speak of *)

\* a request was read and routed on the connection last handled
Routed == conn.kind = "request"
\* the action the router dispatches on
ActionOf(request) ==
    Get(request, "action", IF agent = "credential" THEN "" ELSE "exec")
\* the handling spawned a subprocess / read a secret from the store
IsSpawn(e) == StartsWith(e, "spawn ")
IsStoreRead(e) == StartsWith(e, "store.get ")
Spawned == \E i \in DOMAIN events : IsSpawn(events[i])
ReadStore == \E i \in DOMAIN events : IsStoreRead(events[i])
\* event i is preceded by one of the events of E
Preceded(i, E) == \E j \in 1..(i - 1) : events[j] \in E

\* the strings a response carries, by key
StringKeys ==
    {"error", "code", "value", "tool", "reason", "operation", "algorithm", "status",
     "stdout", "stderr"}
StringsAt(r, keys) ==
    {r[k] : k \in DOMAIN r \cap StringKeys \cap keys}
    \cup (IF "env" \in DOMAIN r \cap keys THEN {r.env[k] : k \in DOMAIN r.env} ELSE {})
    \cup (IF "credentials" \in DOMAIN r \cap keys THEN r.credentials ELSE {})
\* the response holds a loaded secret value under one of these keys
Discloses(r, keys) ==
    \E v \in LoadedValues(secrets, heap) : \E t \in StringsAt(r, keys) : Substring(v, t)
AllKeys == StringKeys \cup {"env", "credentials"}

\* the request was refused
Refused(r) == "error" \in DOMAIN r \/ ("allowed" \in DOMAIN r /\ ~r.allowed)

\* the branch names the branch claims range over
Branches == {"main", "master", "rel/1", "feature", "m", ""}

-----------------------------------------------------------------------------
(* C1: for get, inject, sign, list, check (credential agent) and exec      *)
(* (command agent), a request from a uid outside allowed_uids is refused:  *)
(* the response carries no value, env bundle, signature, name list or      *)
(* command output, check answers allowed = FALSE, no secret is read and no *)
(* subprocess is spawned.                                                  *)
C1_UnauthorizedRefused ==
    (/\ agent \in {"command", "credential"}
     /\ Routed
     /\ conn.uid \notin allowed_uids
     /\ ActionOf(conn.request) \in {"get", "inject", "sign", "list", "exec", "check"})
    => /\ Refused(Val(response))
       /\ DOMAIN Val(response)
            \cap {"value", "env", "signature", "credentials", "stdout", "stderr"} = {}
       /\ ~Discloses(Val(response), AllKeys)
       /\ ~Spawned
       /\ ~ReadStore

\* an unauthorised get for a credential the store holds, refused
C1_Witness ==
    /\ agent = "credential"
    /\ Routed
    /\ conn.uid \notin allowed_uids
    /\ allowed_uids # {}
    /\ ActionOf(conn.request) = "get"
    /\ Get(conn.request, "tool", "") \in DOMAIN secrets
    /\ Val(response).code = "ACCESS_DENIED"

(* C2: check_branch_allowed refuses every branch of the blocked set under  *)
(* every configuration of allow_patterns, also when the branch matches one *)
(* of the patterns.                                                        *)
C2_BlocklistWins ==
    \A b \in Branches \cup blocked : b \in blocked => ~check_branch_allowed(b).allowed

\* a push to a blocked branch that matches an allow pattern, refused as protected
C2_Witness ==
    /\ agent = "command"
    /\ Routed
    /\ \E b \in blocked :
        /\ MatchesAnyPattern(b, allow_patterns)
        /\ "error" \in DOMAIN Val(response)
        /\ Val(response).error = "Branch '" \o b \o "' is protected"

C4_PolicyBeforeReadAndSpawn ==
    (agent \in {"command", "credential"} /\ Routed)
    => \A i \in DOMAIN events :
        (IsStoreRead(events[i]) \/ IsSpawn(events[i]))
        => Preceded(i, {"check_access", "check_branch"})

(* C4: within the handling of a request, the test of the peer uid against  *)
(* allowed_uids (on its own in the command agent, as the opening of        *)
(* check_access in the credential agent) comes before the first read of a  *)
(* secret and the first subprocess spawned; in the credential agent every  *)
(* secret read follows check_access; for a push whose branch resolves to a *)
(* name, check_branch comes before the secret reads and the spawn of the   *)
(* push, and after the spawn of the current-branch query when the name     *)
(* came from it.                                                           *)
C4_ChecksBeforeReadAndSpawn ==
    (agent \in {"command", "credential"} /\ Routed)
    => /\ \A i \in DOMAIN events :
            (IsStoreRead(events[i]) \/ IsSpawn(events[i]))
            => Preceded(i, {"check uid", "check_access"})
       /\ agent = "credential"
            => \A i \in DOMAIN events :
                IsStoreRead(events[i]) => Preceded(i, {"check_access"})
       /\ (/\ agent = "command"
           /\ IsPush(Get(conn.request, "cmd", ""), Get(conn.request, "args", << >>))
           /\ ~IsNone(PushBranch(conn.request.args, conn.cb))
           /\ Val(PushBranch(conn.request.args, conn.cb)) # "")
            => \A i \in DOMAIN events :
                /\ (IsStoreRead(events[i]) \/ events[i] = "spawn git")
                    => Preceded(i, {"check_branch"})
                /\ events[i] = "spawn git branch --show-current"
                    => ~Preceded(i, {"check_branch"})

\* a push on a checkout of an allowed branch: the query, the branch check,
\* the secret read and the push, in this order
C4_Witness ==
    /\ agent = "command"
    /\ Routed
    /\ events = <<"check uid", "spawn git branch --show-current", "check_branch",
                  "store.get github", "spawn git">>

(* C5 as stated: no response of the credential agent holds a stored secret *)
(* value, except the value field of a successful get.                      *)
C5_OnlyGetDiscloses ==
    (agent = "credential" /\ response # None)
    => ~Discloses(Val(response),
                  IF Routed /\ ActionOf(conn.request) = "get"
                        /\ "error" \notin DOMAIN Val(response)
                  THEN AllKeys \ {"value"} ELSE AllKeys)

(* C5: no response of the credential agent holds a stored secret value,    *)
(* except the value field of a successful get and the env bundle of a      *)
(* successful inject.                                                      *)
C5_OnlyGetAndInjectDisclose ==
    (agent = "credential" /\ response # None)
    => ~Discloses(Val(response),
                  IF Routed /\ ActionOf(conn.request) = "get"
                        /\ "error" \notin DOMAIN Val(response)
                  THEN AllKeys \ {"value"}
                  ELSE IF Routed /\ ActionOf(conn.request) = "inject"
                        /\ "error" \notin DOMAIN Val(response)
                  THEN AllKeys \ {"env"}
                  ELSE AllKeys)

\* a successful inject for github: the token is in the env bundle and
\* nowhere else in the response
C5_Witness ==
    /\ agent = "credential"
    /\ Routed
    /\ ActionOf(conn.request) = "inject"
    /\ "env" \in DOMAIN Val(response)
    /\ Discloses(Val(response), {"env"})
    /\ ~Discloses(Val(response), AllKeys \ {"env"})

(* C6 as stated: the stdout and stderr an exec response returns hold no    *)
(* secret value the broker loaded.                                         *)
C6_ExecOutputHoldsNoSecret ==
    (agent = "command" /\ Routed /\ ActionOf(conn.request) = "exec")
    => ~Discloses(Val(response), {"stdout", "stderr"})

(* C7 as stated: with an empty uid allowlist every peer uid is refused:    *)
(* no request other than health is accepted.                               *)
C7_EmptyAllowlistRefusesAll ==
    (allowed_uids = {} /\ Routed /\ ActionOf(conn.request) # "health")
    => Refused(Val(response)) /\ events \in {<< >>, <<"check_access">>, <<"check uid">>}

(* C8 as stated: a health request is answered with the liveness status     *)
(* for every caller, unauthorised ones included, and the answer holds at   *)
(* most names and counts.                                                  *)
C8_HealthAnsweredForAll ==
    (Routed /\ ActionOf(conn.request) = "health")
    => /\ "error" \notin DOMAIN Val(response)
       /\ "status" \in DOMAIN Val(response)
       /\ ~Discloses(Val(response), AllKeys)

\* the variables the load of agent a takes credentials from
SourceVars(a) ==
    CASE a = "command"    -> {CmdCredentialMap[i][1] : i \in DOMAIN CmdCredentialMap}
      [] a = "credential" -> {CredCredentialMap[i][1] : i \in DOMAIN CredCredentialMap}
                             \cup {k \in DOMAIN startEnviron : StartsWith(k, AgentSecretPrefix)}
      [] a = "plugin"     -> {PluginCredentialVars[i] : i \in DOMAIN PluginCredentialVars}

(* C9 as stated: once the load at start-up is done, every credential       *)
(* variable that was present in the environment, also with the empty       *)
(* string as its value, is absent from it.                                 *)
C9_SourceVarsRemoved ==
    phase # "start"
    => \A v \in SourceVars(agent) \cap DOMAIN startEnviron : v \notin DOMAIN environ

(* C10: after destroy_all, get(name) answers not-found for every name that *)
(* resolved before it, the aliases included.                               *)
C10_NotFoundAfterDestroy ==
    phase = "destroyed" => \A n \in resolved : IsNone(StoreGet(secrets, heap, n))

\* a destroyed store of the command agent that held github and its alias gh
C10_Witness ==
    /\ phase = "destroyed"
    /\ agent = "command"
    /\ "GH_TOKEN" \notin DOMAIN startEnviron
    /\ {"github", "gh"} \subseteq resolved
    /\ IsNone(StoreGet(secrets, heap, "gh"))

\* no worker thread is in flight
NoWorkerInFlight == \A i \in DOMAIN threads : threads[i] = "done"

(* C11 as stated: whenever the broker process has terminated after the     *)
(* store was loaded (signal-triggered shutdown, failure while setting up   *)
(* the socket, an error ending the accept loop), the store's destroy was   *)
(* called exactly once.                                                    *)
C11_DestroyedOnceOnExit ==
    phase = "exited" => destroyCalls = 1

(* C12 as stated: on signal-triggered shutdown the store is destroyed only *)
(* when the running flag is cleared and no connection worker is in flight, *)
(* and the socket is closed and unlinked only after the store was          *)
(* destroyed, so not while a worker is in flight.                          *)
C12_ShutdownOrder ==
    (signalled /\ phase # "running")
    => /\ destroyCalls > 0 => (~running /\ NoWorkerInFlight)
       /\ (sock = "closed" \/ ~sockFile) => (destroyCalls = 1 /\ NoWorkerInFlight)

\* the requests a broker authenticates: all of the command agent's, and the
\* credential agent's get, inject, sign, list and check
Authenticated ==
    /\ Routed
    /\ \/ agent = "command"
       \/ agent = "credential"
            /\ ActionOf(conn.request) \in {"get", "inject", "sign", "list", "check"}

\* the response refuses the uid the kernel reported for the connection
UidRefused(r) ==
    \/ /\ "error" \in DOMAIN r
       /\ r.error \in {"Access denied for UID " \o ToString(conn.uid),
                       "UID " \o ToString(conn.uid) \o " not in allowed list",
                       "Access denied"}
    \/ /\ "allowed" \in DOMAIN r
       /\ ~r.allowed
       /\ r.reason = "UID " \o ToString(conn.uid) \o " not in allowed list"

(* C13: the authentication outcome of a request is a function of the uid   *)
(* the kernel reports for its connection alone: the request is refused for *)
(* its uid exactly when that uid is outside allowed_uids, whatever the     *)
(* payload, uid and pid fields in it included, and whatever connection was *)
(* handled before.                                                         *)
C13_AuthByKernelUid ==
    Authenticated => (UidRefused(Val(response)) <=> conn.uid \notin allowed_uids)

\* a get from an unauthorised peer whose payload claims an authorised uid, refused
C13_Witness ==
    /\ agent = "credential"
    /\ Routed
    /\ conn.uid = 4242
    /\ allowed_uids = {1000}
    /\ conn.request = [action |-> "get", tool |-> "github", uid |-> 1000, pid |-> 1]
    /\ Val(response) = AccessDenied("UID 4242 not in allowed list")

(* C14: for a branch outside the blocked set, check_branch_allowed allows  *)
(* it exactly when allow_patterns is empty or the branch glob-matches at   *)
(* least one of the patterns.                                              *)
C14_AllowPatternsDecide ==
    \A b \in Branches \ blocked :
        check_branch_allowed(b).allowed
        <=> (Len(allow_patterns) = 0
             \/ \E i \in DOMAIN allow_patterns : fnmatch(b, allow_patterns[i]))

\* a push to a branch that is not blocked and matches none of the patterns, refused
C14_Witness ==
    /\ agent = "command"
    /\ Routed
    /\ Len(allow_patterns) > 0
    /\ "config" \notin blocked
    /\ conn.request = [action |-> "exec", cmd |-> "git", args |-> <<"push", "origin", "config">>]
    /\ Val(response) = [error |-> "Branch 'config' does not match allowed patterns",
                        exit_code |-> 1]

\* the operations the check_access claims range over
Operations == {"get", "inject", "sign", "push"}

(* C15: check_access denies a uid outside allowed_uids whatever the tool   *)
(* policy says, and for an allowed uid denies a tool whose policy has      *)
(* enabled = false whatever its operations map says, also when the map     *)
(* gives true for the requested operation.                                 *)
C15_UidThenEnabled ==
    agent = "credential"
    => \A tool \in CredTools, operation \in Operations, uid \in Uids :
        /\ uid \notin allowed_uids
            => check_access(tool, operation, uid)
                = [allowed |-> FALSE,
                   reason |-> "UID " \o ToString(uid) \o " not in allowed list"]
        /\ (/\ uid \in allowed_uids
            /\ tool \in DOMAIN policy.tools
            /\ ~Get(policy.tools[tool], "enabled", TRUE))
            => check_access(tool, operation, uid)
                = [allowed |-> FALSE, reason |-> "Tool '" \o tool \o "' is disabled"]

\* a get by an allowed uid for a stored credential of a disabled tool whose
\* operations map gives get = true, refused
C15_Witness ==
    /\ agent = "credential"
    /\ Routed
    /\ conn.uid \in allowed_uids
    /\ conn.request = [action |-> "get", tool |-> "github"]
    /\ "github" \in DOMAIN secrets
    /\ "github" \in DOMAIN policy.tools
    /\ ~Get(policy.tools["github"], "enabled", TRUE)
    /\ policy.tools["github"].operations["get"]
    /\ Val(response) = AccessDenied("Tool 'github' is disabled")

(* C16 as stated: for an allowed uid and an enabled tool whose policy      *)
(* declares an operations map, of any size, the empty map included,        *)
(* check_access allows an operation of the map exactly when its value is   *)
(* true, and an operation absent from the map exactly when default_deny is *)
(* false.                                                                  *)
C16_OperationsMapDecides ==
    agent = "credential"
    => \A tool \in DOMAIN policy.tools, operation \in Operations, uid \in allowed_uids :
        (/\ Get(policy.tools[tool], "enabled", TRUE)
         /\ "operations" \in DOMAIN policy.tools[tool])
        => (check_access(tool, operation, uid).allowed
            <=> IF operation \in DOMAIN policy.tools[tool].operations
                THEN policy.tools[tool].operations[operation]
                ELSE ~policy.default_deny)

\* extract_push_branch / validate_command has returned
Extracted == call.fn = "extract_push_branch" /\ result # None
Validated == call.fn = "validate_command" /\ result # None
\* all the text after the first occurrence of c in s
AfterFirst(s, c) == SubSeq(s, FirstIndex(s, c) + 1, Len(s))
\* the positional tokens of a push argv as the parser's loop builds them
Positional(args) == NonOptionArgs(args, FALSE)
\* the refspec asks for a deletion in the spec's sense: nothing after its colon
IsDeletion(args) ==
    /\ Len(Positional(args)) >= 2
    /\ HasChar(Positional(args)[2], ":")
    /\ AfterFirst(Positional(args)[2], ":") = ""

\* the argv names no branch: no positional token, or a remote name alone
UsesCurrentBranch(args) ==
    \/ Len(Positional(args)) = 0
    \/ Len(Positional(args)) = 1 /\ Positional(args)[1] \in RemoteNames

(* C17 as stated: with two or more positional tokens P the branch comes    *)
(* from the second of them alone: without a colon it is that token, with a *)
(* colon it is all the text after the first colon ('b:c' for 'a:b:c'), and *)
(* an empty text after the colon gives the deletion signal.                *)
C17_SecondPositionalDecides ==
    (Extracted /\ Len(Val(result).P) >= 2)
    => LET refspec == Val(result).P[2]
       IN  Val(result).branch
            = IF ~HasChar(refspec, ":") THEN Some(refspec)
              ELSE IF AfterFirst(refspec, ":") = "" THEN None
              ELSE Some(AfterFirst(refspec, ":"))

(* C18 as stated: for a refspec ':B' with an empty source after a remote,  *)
(* extract_push_branch returns the deletion signal, not the branch B.      *)
C18_EmptySourceIsDeletion ==
    (/\ Extracted
     /\ Len(Val(result).P) >= 2
     /\ StartsWith(Val(result).P[2], ":")
     /\ Len(Val(result).P[2]) > 1)
    => Val(result).branch = None

(* C18: for a refspec ':B' with an empty source after a remote, B a name   *)
(* without a colon, extract_push_branch returns the branch B, and the      *)
(* validator checks B without asking for the checked-out branch.           *)
C18_EmptySourceGivesBranch ==
    /\ (/\ Extracted
        /\ Len(Val(result).P) >= 2
        /\ StartsWith(Val(result).P[2], ":")
        /\ Len(Val(result).P[2]) > 1
        /\ ~HasChar(AfterFirst(Val(result).P[2], ":"), ":"))
        => Val(result).branch = Some(AfterFirst(Val(result).P[2], ":"))
    /\ (/\ Validated
        /\ Len(Positional(Tail(call.args))) >= 2
        /\ StartsWith(Positional(Tail(call.args))[2], ":")
        /\ Len(Positional(Tail(call.args))[2]) > 1
        /\ ~HasChar(AfterFirst(Positional(Tail(call.args))[2], ":"), ":"))
        => Val(result).events = <<"check_branch">>

\* extract_push_branch(['origin', ':deleteme']) has returned 'deleteme'
C18_Witness ==
    /\ Extracted
    /\ call.args = <<"origin", ":deleteme">>
    /\ Val(result).branch = Some("deleteme")

(* C19 as stated: the validator asks for the checked-out branch only when  *)
(* the parser's result is 'use the current branch'; a deletion neither     *)
(* triggers that query nor is checked against the checked-out branch.      *)
C19_DeletionNotQueried ==
    /\ (/\ Validated
        /\ \E i \in DOMAIN Val(result).events :
                Val(result).events[i] = "spawn git branch --show-current")
        => UsesCurrentBranch(Tail(call.args))
    /\ (Validated /\ IsDeletion(Tail(call.args)))
        => Val(result).events = << >>

\* token i of args is taken as the value of a one-argument flag before it
RECURSIVE IsFlagValue(_, _)
IsFlagValue(args, i) ==
    /\ i > 1
    /\ args[i - 1] \in OneArgFlags
    /\ ~IsFlagValue(args, i - 1)

\* the tokens of args from the i-th on, in order, that neither start with
\* '-' nor are the value of a one-argument flag
RECURSIVE Kept(_, _)
Kept(args, i) ==
    IF i > Len(args) THEN << >>
    ELSE (IF ~StartsWith(args[i], "-") /\ ~IsFlagValue(args, i) THEN <<args[i]>> ELSE << >>)
         \o Kept(args, i + 1)

(* C20: the positional list P holds no token that starts with '-' and no   *)
(* token taken as the value of a recognised one-argument flag (-o,         *)
(* --push-option, --repo, --receive-pack, --exec); every other token of    *)
(* the argv is in P, in its original order.                                *)
C20_PositionalList ==
    Extracted => Val(result).P = Kept(call.args, 1)

\* a push argv with a one-argument flag and its value: P is what is left
C20_Witness ==
    /\ Extracted
    /\ call.args = <<"--repo", "origin", "main">>
    /\ Val(result).P = <<"main">>

(* C21: with exactly one positional token the parser answers 'use the      *)
(* current branch' (None) when the token is 'origin' or 'upstream' and the *)
(* token itself as the branch otherwise; with no positional token it       *)
(* answers 'use the current branch'.                                       *)
C21_SinglePositional ==
    (Extracted /\ Len(Val(result).P) <= 1)
    => Val(result).branch
        = IF Len(Val(result).P) = 1 /\ Val(result).P[1] \notin {"origin", "upstream"}
          THEN Some(Val(result).P[1])
          ELSE None

\* extract_push_branch(['-u', 'upstream']) has returned None
C21_Witness ==
    /\ Extracted
    /\ call.args = <<"-u", "upstream">>
    /\ Val(result).P = <<"upstream">>
    /\ Val(result).branch = None

\* the plugin server called read_message on the connection last handled
PluginRead == agent = "plugin" /\ conn # NoConn /\ "read" \in DOMAIN conn
\* read_message went as far as decoding the payload
Decoded == \E i \in DOMAIN conn.read : conn.read[i] = "decode_message"
\* read_message raised ProtocolError
ProtocolErrorRaised ==
    StartsWith(conn.read[Len(conn.read)], "raise ProtocolError")

(* C22: a protocol message whose length prefix equals the size cap (65536) *)
(* is accepted: its payload is decoded and the request answered; one whose *)
(* length prefix is the cap plus one is rejected by a ProtocolError before *)
(* its payload is decoded, and the request does not reach the router:      *)
(* nothing is validated, executed or answered.                             *)
C22_CapInclusive ==
    /\ (PluginRead /\ conn.length = MAX_MESSAGE_SIZE /\ conn.kind = "request")
        => /\ Decoded
           /\ ~ProtocolErrorRaised
           /\ "request" \in DOMAIN conn
           /\ response = Some(PluginProcessRequest(conn.request, conn.valid, conn.run).response)
    /\ (PluginRead /\ conn.length = MAX_MESSAGE_SIZE + 1)
        => /\ ~Decoded
           /\ ProtocolErrorRaised
           /\ events[Len(events)] = "read_message"
           /\ response = None

\* a well-formed health request announced with the cap plus one was dropped
\* at the length check
C22_Witness ==
    /\ PluginRead
    /\ conn.kind = "request"
    /\ conn.length = MAX_MESSAGE_SIZE + 1
    /\ conn.read = <<"recv length", "raise ProtocolError: Message size exceeds max">>
    /\ response = None

\* the connection of client c is stalled: accepted with no data sent, or
\* its command still running
Stalled(c) ==
    \/ clients[c].at = "recv" /\ clients[c].sent = clients[c].read
    \/ clients[c].at = "run"

(* C23 as stated: a stalled client or a stalled subprocess affects only    *)
(* its own connection: while one accepted connection has sent no data, or  *)
(* its command is still running, another client's connection can be        *)
(* accepted (and so answered) without waiting for the first one.           *)
C23_StalledAffectsOnlyItself ==
    \A c1, c2 \in Clients :
        (c1 # c2 /\ Stalled(c1) /\ clients[c2].at = "queued")
        => ENABLED AcceptOf(c2)

(* C24: on one accepted connection the server routes at most one request   *)
(* and writes at most one response, and the connection is closed once the  *)
(* response is written; a second request sent on it is never processed.    *)
C24_OneRequestPerConnection ==
    \A c \in Clients :
        /\ clients[c].processed <= 1
        /\ clients[c].responses <= 1
        /\ clients[c].responses = 1 => clients[c].at = "closed"

\* a client wrote two requests; the first was answered, the connection is
\* closed and the second was never read
C24_Witness ==
    \E c \in Clients :
        /\ clients[c].at = "closed"
        /\ clients[c].sent = 2
        /\ clients[c].read = 1
        /\ clients[c].processed = 1
        /\ clients[c].responses = 1

\* the handling of the connection raised an exception the handler does not
\* expect: the decoded payload is not an object (request.get raises
\* AttributeError), or the plugin's execute raised
HandlerRaised ==
    \/ conn.kind = "not a dict" /\ (agent = "command" => conn.uid \in allowed_uids)
    \/ /\ agent = "plugin"
       /\ "run" \in DOMAIN conn
       /\ conn.run.exc \notin {"", "not run"}
\* the listener is still in its accept loop and takes the next connection
ListenerServes == phase = "running" /\ running /\ sock = "open" /\ ENABLED BackToAccept

(* C25 as stated: an unexpected exception raised inside a request handler  *)
(* is caught at the connection boundary and converted into an error        *)
(* response sent to the caller; the accept loop goes on.                   *)
C25_ExceptionBecomesErrorResponse ==
    HandlerRaised
    => /\ response # None
       /\ "error" \in DOMAIN Val(response)
       /\ ListenerServes

\* the uid of the connection went through the handler's allowlist check and
\* failed it
UidCheckFailed ==
    /\ Routed
    /\ conn.uid \notin allowed_uids
    /\ \/ agent = "command"
       \/ agent = "credential" /\ ActionOf(conn.request) \in {"get", "inject", "sign", "list"}

(* C26 as stated: a connection from a uid that is not in the allowlist     *)
(* receives a structured response carrying the code AUTH_DENIED; the       *)
(* connection is closed normally and the listener keeps serving.           *)
C26_AuthDeniedAnswered ==
    UidCheckFailed
    => /\ response # None
       /\ "error" \in DOMAIN Val(response)
       /\ Get(Val(response), "code", "") = "AUTH_DENIED"
       /\ ListenerServes

\* the command agent called execute_command and subprocess.run raised
ExecRaised ==
    /\ agent = "command"
    /\ Routed
    /\ conn.run.exc \notin {"", "not run"}

OutputReturned ==
    /\ call.fn \in {"execute_command", "_process"}
    /\ result # None
    /\ call.run.exc = ""
\* out is text cut at the cap: text itself up to the cap, else its first
\* MAX_OUTPUT_SIZE characters followed by the truncation marker
CutAtCap(out, text) ==
    IF Len(text) <= MAX_OUTPUT_SIZE THEN out = text
    ELSE out = SubSeq(text, 1, MAX_OUTPUT_SIZE) \o "\n... (truncated)"

(* C28 as stated: for each of stdout and stderr independently, output no   *)
(* longer than the cap (1 MiB) is returned unchanged and output longer     *)
(* than the cap is returned as its first cap characters followed by a      *)
(* truncation marker.                                                      *)
C28_OutputCutAtCap ==
    OutputReturned
    => /\ CutAtCap(Val(result).stdout, call.run.stdout)
       /\ CutAtCap(Val(result).stderr, call.run.stderr)

\* an exec request with a command name reached the command agent's router
ExecRequested ==
    /\ agent = "command"
    /\ Routed
    /\ ActionOf(conn.request) = "exec"
    /\ Get(conn.request, "cmd", "") # ""

(* C29: the exec action never spawns a subprocess for a command name       *)
(* outside the allow-set {git, gh, curl}: such a request is answered with  *)
(* an error, execute_command is not called and the store is not read.      *)
C29_OnlyAllowedCommandsSpawn ==
    (ExecRequested /\ conn.request.cmd \notin {"git", "gh", "curl"})
    => /\ "error" \in DOMAIN Val(response)
       /\ ~Spawned
       /\ ~ReadStore

\* an authorised peer asked for rm -rf / and was refused before any spawn
C29_Witness ==
    /\ ExecRequested
    /\ conn.uid \in allowed_uids
    /\ conn.request.cmd = "rm"
    /\ Val(response).error = "Command 'rm' not allowed"
    /\ events = <<"check uid">>

\* git's options before the subcommand: those that stand alone and those
\* followed by a value
GitLoneOptions == {"--no-pager", "--paginate", "-p", "--bare", "--no-replace-objects"}
GitValueOptions == {"-C", "-c", "--git-dir", "--work-tree", "--namespace"}
\* the position of the subcommand in a git argv from position i on (0: none)
RECURSIVE GitSubcommandAt(_, _)
GitSubcommandAt(args, i) ==
    IF i > Len(args) THEN 0
    ELSE IF args[i] \in GitLoneOptions THEN GitSubcommandAt(args, i + 1)
    ELSE IF args[i] \in GitValueOptions THEN GitSubcommandAt(args, i + 2)
    ELSE IF StartsWith(args[i], "-") THEN 0
    ELSE i
\* the argv asks git to change global-scope configuration: its subcommand
\* is config or remote and --global follows it
GitGlobalConfig(args) ==
    LET k == GitSubcommandAt(args, 1)
    IN  /\ k > 0
        /\ args[k] \in {"config", "remote"}
        /\ \E i \in (k + 1)..Len(args) : args[i] = "--global"
\* the argv asks gh for its own auth or config management
GhAuthOrConfig(args) == Len(args) > 0 /\ args[1] \in {"auth", "config"}

(* C30 as stated: every gh invocation whose subcommand is auth or config,  *)
(* and every git invocation that changes global-scope configuration        *)
(* (config or remote with --global), is rejected by validate_command and   *)
(* never passed to the executor.                                           *)
C30_ConfigChangesRefused ==
    (/\ ExecRequested
     /\ conn.uid \in allowed_uids
     /\ LET args == Get(conn.request, "args", << >>)
        IN  \/ conn.request.cmd = "gh" /\ GhAuthOrConfig(args)
            \/ conn.request.cmd = "git" /\ GitGlobalConfig(args))
    => /\ "error" \in DOMAIN Val(response)
       /\ ~Spawned

\* this step is a call of destroy_all
DestroyStep == destroyCalls' = destroyCalls + 1
\* the secret objects the store's names point to
StoredObjects == {secrets[n] : n \in DOMAIN secrets}

(* C31: destroy is idempotent: every call of destroy_all leaves the store  *)
(* empty, each secret object, also one that two names share and that the   *)
(* loop destroys twice, is left as one destroy leaves it, a further        *)
(* destroy of it changes nothing, and a second destroy_all changes         *)
(* nothing.                                                                *)
C31_DestroyIdempotent ==
    [][DestroyStep
       => /\ secrets' = EmptyDict
          /\ DOMAIN heap' = DOMAIN heap
          /\ \A o \in DOMAIN heap :
                /\ heap'[o] = IF o \in StoredObjects THEN SecureSecret_destroy(heap[o])
                              ELSE heap[o]
                /\ o \in StoredObjects => SecureSecret_destroy(heap'[o]) = heap'[o]
          /\ phase = "destroyed" => (heap' = heap /\ secrets' = secrets)]_vars

\* the command agent's store, in which gh shared the object of github, after
\* its second destroy_all
C31_Witness ==
    /\ agent = "command"
    /\ destroyCalls = 2
    /\ {"github", "gh"} \subseteq resolved
    /\ "GH_TOKEN" \notin DOMAIN startEnviron
    /\ secrets = EmptyDict
    /\ heap["GITHUB_TOKEN"] = [data |-> Zeros(Len(SecretValue("GITHUB_TOKEN"))), buf |-> None]

\* the connection carried a check request to the credential agent
CheckRouted == agent = "credential" /\ Routed /\ ActionOf(conn.request) = "check"
\* what get would answer to the same tool, operation and uid
GetOfChecked ==
    HandleGet(conn.uid, Get(conn.request, "tool", ""), Get(conn.request, "operation", "get"),
              secrets, heap).response
\* get would enforce a denial
GetDenies == "code" \in DOMAIN GetOfChecked /\ GetOfChecked.code = "ACCESS_DENIED"

(* C32: the check action answers allowed = true exactly when get, for the  *)
(* same tool, operation and uid, would not answer ACCESS_DENIED, and the   *)
(* handling of check only consults the policy: it reads no credential and  *)
(* spawns no subprocess.                                                   *)
C32_CheckAgreesWithGet ==
    CheckRouted
    => /\ Val(response).allowed = ~GetDenies
       /\ events = <<"check_access">>
       /\ ~ReadStore /\ ~Spawned

\* a check refused by the tool policy for a uid of the allowlist, and a
\* check allowed for a tool whose credential get would hand out
C32_Witness ==
    /\ CheckRouted
    /\ conn.uid \in allowed_uids
    /\ conn.request.tool = "github"
    /\ ~Val(response).allowed
    /\ GetDenies
C32_WitnessAllowed ==
    /\ CheckRouted
    /\ Val(response).allowed
    /\ "value" \in DOMAIN GetOfChecked

\* the events of the validation just made
ValidationEvents == Val(result).events
BranchChecked == \E i \in DOMAIN ValidationEvents : ValidationEvents[i] = "check_branch"
\* `git branch --show-current` failed, timed out, or printed no name
CurrentBranchUnknown ==
    \/ call.cb.exc # ""
    \/ call.cb.rc # 0
    \/ Strip(call.cb.stdout) = ""
\* a push whose target neither the argv nor the repository tells
PushUndetermined ==
    /\ Validated
    /\ IsPush(call.cmd, call.args)
    /\ IsNone(extract_push_branch(Tail(call.args)))
    /\ call.cb # NotRun
    /\ CurrentBranchUnknown

(* C33: a git push whose target branch cannot be determined (the parser    *)
(* yields no branch, and the query for the current branch fails or prints  *)
(* an empty name) is allowed, and check_branch is not called for it.       *)
C33_UndeterminedPushAllowed ==
    PushUndetermined
    => /\ Val(result).ok
       /\ ~BranchChecked
       /\ ValidationEvents = <<"spawn git branch --show-current">>

\* `git push origin` validated where the query exits with 128, and `git
\* push` validated on a detached head, where it prints nothing
C33_Witness ==
    /\ PushUndetermined
    /\ call.args = <<"push", "origin">>
    /\ call.cb.rc = 128
    /\ Val(result).ok
C33_WitnessDetached ==
    /\ PushUndetermined
    /\ call.args = <<"push">>
    /\ call.cb = Completed(0, "", "")
    /\ Val(result).ok

\* the argv of a validated git command has push as its subcommand, at k
GitPushAt(k) ==
    /\ Validated
    /\ call.cmd = "git"
    /\ k = GitSubcommandAt(call.args, 1)
    /\ k > 0
    /\ call.args[k] = "push"
\* the branch a push with its subcommand at k targets: the one its argv
\* names, else the current branch
PushTarget(k) ==
    LET parsed == extract_push_branch(SubSeq(call.args, k + 1, Len(call.args)))
    IN  IF IsNone(parsed) THEN get_current_branch(call.cb) ELSE parsed
TargetsBlocked(k) ==
    /\ ~IsNone(PushTarget(k))
    /\ Val(PushTarget(k)) # ""
    /\ ~check_branch_allowed(Val(PushTarget(k))).allowed

(* C34 as stated: the push branch check applies to every git argv whose    *)
(* subcommand is push, also when git's own options (-C <dir>,              *)
(* -c <key=value>, ...) stand before the token push: such an argv that     *)
(* targets a blocked branch is denied.                                     *)
C34_PushBehindOptionsChecked ==
    \A k \in 1..Len(call.args) :
        (GitPushAt(k) /\ TargetsBlocked(k)) => ~Val(result).ok

\* the destination a refspec names: what follows its colon, or all of it
Destination(refspec) ==
    IF HasChar(refspec, ":") THEN AfterFirst(refspec, ":") ELSE refspec
\* some refspec of the validated push, the first or a later one, names a
\* destination that check_branch denies
SomeRefspecBlocked ==
    LET P == Positional(Tail(call.args))
    IN  \E i \in 2..Len(P) :
            /\ Destination(P[i]) # ""
            /\ ~check_branch_allowed(Destination(P[i])).allowed

(* C35 as stated: a git push is denied when any of its refspecs, any       *)
(* positional token after the remote and not only the first, names a       *)
(* destination branch that check_branch denies.                            *)
C35_EveryRefspecChecked ==
    (Validated /\ IsPush(call.cmd, call.args) /\ SomeRefspecBlocked) => ~Val(result).ok

\* how many times the ToolCaller ran the tool's setup.sh
SetupRuns == Cardinality({i \in DOMAIN subprocesses : subprocesses[i] = "setup.sh"})

(* C36 as stated: the tool's setup.sh is executed at most once over the    *)
(* lifetime of a ToolCaller, also when several connection threads are in   *)
(* call() at the same time for the same tool not yet registered.           *)
C36_SetupAtMostOnce == SetupRuns <= 1

\* a wrapper for the tool is on disk, as the lookup order describes one: a
\* restricted.py or restricted.sh file, or an executable file named
\* restricted, in the tool's directory, or the like in the global directory
WrapperOnDisk(i) ==
    /\ WrapperCandidates[i].where = "tool" => fs.dir
    /\ \/ fs.files[i] = "exec"
       \/ fs.files[i] = "file" /\ WrapperCandidates[i].suffix # ""
RanBinaryDirectly == \E i \in DOMAIN subprocesses : subprocesses[i] = "binary"

(* C39 as stated: call never executes the tool's real binary directly when *)
(* a wrapper file for the tool exists in the tool's own directory or in    *)
(* the global restricted directory.                                        *)
C39_WrapperNeverBypassed ==
    RanBinaryDirectly => ~(\E i \in 1..6 : WrapperOnDisk(i))

\* a request read from an admitted peer went through the plugin server's
\* handler
PluginResponded == call.fn = "_handle_connection" /\ result # None

(* C37 as stated: every request that PluginServer reads from an authorised *)
(* peer is answered with a response message before the connection is       *)
(* closed, also when the captured output makes the encoded response larger *)
(* than the 64 KiB message cap.                                            *)
C37_EveryRequestAnswered ==
    PluginResponded => Val(result).sent = Some(Val(result).response)

\* the store holds no credential any more: destroy_all, or the plugin's
\* clear, has emptied it
CredentialsDestroyed == secrets = EmptyDict /\ credentials = EmptyDict
\* the listener left its accept loop and finished its cleanup
ShutDown == phase = "exited" /\ ~running /\ ~sockFile /\ CredentialsDestroyed

(* C38 as stated: after SIGTERM or SIGINT is delivered to a running        *)
(* broker, the listener eventually leaves its accept loop, destroys the    *)
(* credentials and unlinks the socket file, given that every connection in *)
(* flight completes or times out.                                          *)
C38_SignalLeadsToShutdown == signalled ~> ShutDown

\* the same for the command agent and the credential agent alone
C38_AgentsShutDown == (signalled /\ agent # "plugin") ~> ShutDown


=============================================================================
